---------------------------- MODULE Spec2Model ----------------------------
(***************************************************************************)
(* A model of the MicroRNG SPI driver (class MicroRngSPI, MicroRngSPI.cpp  *)
(* version 1.1) and of the bus and descriptor table it talks to.           *)
(*                                                                         *)
(* The session object's fields are the variables deviceConnected, fd,      *)
(* clockHz, lastSentCommand and lastError.  Every public method is one     *)
(* action.  The method bodies are operators over a "machine" record (the   *)
(* fields, the descriptor table, the memory the rx pointer points into and *)
(* the log of transfers issued by the running call), written in the order  *)
(* of the C++ statements.  What the kernel and the device answer is an     *)
(* input of the action (an "oracle": which transfer of the call fails, and *)
(* the byte each transfer returns).                                        *)
(***************************************************************************)
EXTENDS Integers, Sequences, FiniteSets, TLC

VARIABLES
    deviceConnected,   \* bool deviceConnected
    fd,                \* int fd
    clockHz,           \* uint32_t clockHz
    lastSentCommand,   \* char lastSentCommand
    lastError,         \* char lastError[512]
    openFds,           \* the process's open descriptors (kernel side)
    badCloses,         \* descriptors closed while they were not open
    devicePending,     \* the command the device received last (it answers it
                       \* at the next transfer)
    lastTransfer,      \* the last transfer of the current connection, or NoTransfer
    buf,               \* the caller's receive buffer (0xAA-filled before each call)
    call,              \* observation of the last call: its name, arguments,
                       \* return value, transfers, and the state it started from
    tool               \* the mcrng download process (mcrng.cpp): its position,
                       \* its globals and the blocks it wrote to the output

vars == <<deviceConnected, fd, clockHz, lastSentCommand, lastError,
          openFds, badCloses, devicePending, lastTransfer, buf, call, tool>>

-----------------------------------------------------------------------------
(* Bounds of the model *)

\* most calibration steps the device passes before it fails one
MaxPass == 2

\* longest multi-byte retrieval requested by a caller
MaxLen == 3

\* most complete blocks of a bounded download, and most blocks but one of a
\* continuous one
MaxChunks == 2

-----------------------------------------------------------------------------
(* Program constants: MicroRngSPI::initialize *)

minClockHz == 250000
maxClockHz == 60000000
spiBits == 8
NoCommand == 0
testCommand == 116
randomByteCommand == 108
statusByteCommand == 115
rawRandomByteCommand == 114
shutDownCommand == 68
startUpCommand == 85
\* The reset-uart opcode typed in lower case: the raw-random opcode.
resetUartSpeedCommandLowerCase == rawRandomByteCommand
resetUartSpeedCommand == 82

\* uint8_t arithmetic
ByteMod == 256

Byte == 0 .. (ByteMod - 1)

NamedCommands ==
    {testCommand, randomByteCommand, statusByteCommand, rawRandomByteCommand,
     shutDownCommand, startUpCommand, resetUartSpeedCommand}

\* IncByte without the uint8_t wrap-around (the increment done in an int).
IncByteNoWrap(x) == x + 1

\* ++x on a uint8_t
IncByte(x) == (x + 1) % ByteMod

-----------------------------------------------------------------------------
(* Error texts *)

ErrNotConnected == "Not Connected"
ErrNone == ""
ErrOpen == "Could not open SPI device: %s"
ErrWrMode == "Could not set SPI write mode"
ErrRdMode == "Could not set SPI read mode"
ErrWrBits == "Could not set SPI transmission word bits"
ErrRdBits == "Could not set SPI word bits"
ErrWrSpeed == "Could not set SPI transmission clock frequency"
ErrRdSpeed == "Could not set SPI clock frequency"
ErrExchange == "Could not exchange SPI bytes"
ErrDeviceNotFound == "MicroRNG device not found"
ErrValidateComm == "Could not validate SPI communication"
ErrAmountRandom == "Invalid ammount of random bytes requested"
ErrAmountTest == "Invalid amount of test bytes requested"
ErrAmountRaw == "Invalid amount of raw random bytes requested"

-----------------------------------------------------------------------------
(* The descriptor table *)

\* descriptors open() can hand out (0, 1, 2 are the standard streams)
Fds == {3, 4}

NoFd == -1

\* open(2): the lowest free descriptor, or -1
OpenResult(open, succeeds) ==
    IF succeeds /\ (Fds \ open) # {}
    THEN CHOOSE n \in Fds \ open : \A k \in Fds \ open : n <= k
    ELSE NoFd

-----------------------------------------------------------------------------
(* Transfers *)

NoTransfer == [cmd |-> NoCommand, ok |-> FALSE, none |-> TRUE]

\* An oracle: transfer number failAt of the call fails (0: none does), and
\* transfer number j, when it succeeds, returns rx[j].

\* What ioctl(fd, SPI_IOC_MESSAGE(1), &tr) returns for a failing transfer:
\* the oracle's code if it names one (0: no byte was transferred), else -1.
FailCode(o) == IF "code" \in DOMAIN o THEN o.code ELSE -1

\* The value ioctl returns for transfer j: the length transferred, 1, or
\* the failure code.
IoctlReturn(o, j) == IF j # o.failAt THEN 1 ELSE FailCode(o)

\* The test with "retCode < 0": a return of 0 passes for a success.
OracleOkNonNegative(o, j) == ~(IoctlReturn(o, j) < 0)

\* if (retCode < 1) { ...; return false; } return true;
OracleOk(o, j) == ~(IoctlReturn(o, j) < 1)

OracleRx(o, j) == o.rx[j]

-----------------------------------------------------------------------------
(* MicroRngSPI's methods, over a machine record                            *)
(*   [deviceConnected, fd, clockHz, lastSentCommand, lastError,            *)
(*    openFds, badCloses, buf, xfers]                                      *)
(* buf is the memory the rx pointers of the call point into (address p is  *)
(* buf[p]) and xfers the transfers the call has issued so far.  Methods    *)
(* that return bool yield [m |-> machine after, ret |-> returned value].   *)

\* void MicroRngSPI::setErrMsg(const char *errMessage)
setErrMsg(m, errMessage) == [m EXCEPT !.lastError = errMessage]

\* void MicroRngSPI::clearErrMsg()
clearErrMsg(m) == setErrMsg(m, ErrNone)

\* isConnected deciding by the descriptor instead of the flag.
isConnectedByFd(m) == m.fd # NoFd

\* bool MicroRngSPI::isConnected()
isConnected(m) == m.deviceConnected

\* void MicroRngSPI::initialize()
initialize(m) ==
    [m EXCEPT !.deviceConnected = FALSE,
              !.fd = NoFd,
              !.lastError = ErrNotConnected,
              !.clockHz = minClockHz,
              !.lastSentCommand = NoCommand]

\* close(2) on descriptor d; a close of a descriptor that is not open (a
\* second close of a handle) is kept in badCloses.
CloseFd(m, d) ==
    [m EXCEPT !.openFds = @ \ {d},
              !.badCloses = IF d \in m.openFds THEN @ ELSE @ \cup {d}]

\* setMaxClockFrequency taking effect on a connected session only.
setMaxClockFrequencyWhenConnected(m, hz) ==
    IF m.deviceConnected THEN [m EXCEPT !.clockHz = hz] ELSE m

\* void MicroRngSPI::setMaxClockFrequency(uint32_t clockHz)
setMaxClockFrequency(m, hz) == [m EXCEPT !.clockHz = hz]

\* uint32_t MicroRngSPI::getMaxClockFrequency()
getMaxClockFrequency(m) == m.clockHz

\* The steps of connect that can fail: open, then the six ioctls in order.
ConnectSteps == <<ErrOpen, ErrWrMode, ErrRdMode, ErrWrBits, ErrRdBits,
                  ErrWrSpeed, ErrRdSpeed>>

\* connect without its isConnected guard.
connectUnguarded(m, failStep) ==
    LET m0 == clearErrMsg(m)
        newFd == OpenResult(m0.openFds, failStep # 1)
        m1 == [m0 EXCEPT !.fd = newFd,
                         !.openFds = IF newFd < 0 THEN @ ELSE @ \cup {newFd}]
    IN  IF newFd < 0
        THEN [m |-> setErrMsg(m1, ErrOpen), ret |-> FALSE]
        ELSE IF failStep \in 2 .. Len(ConnectSteps)
        THEN [m |-> setErrMsg(CloseFd(m1, m1.fd), ConnectSteps[failStep]),
              ret |-> FALSE]
        ELSE [m |-> [m1 EXCEPT !.deviceConnected = TRUE], ret |-> TRUE]

\* connect without the close(fd) on its configuration error paths.
connectLeaksOnFailure(m, failStep) ==
    IF m.deviceConnected
    THEN [m |-> m, ret |-> FALSE]
    ELSE LET newFd == OpenResult(m.openFds, failStep # 1)
             m1 == [m EXCEPT !.lastError = ErrNone, !.fd = newFd,
                             !.openFds = IF newFd < 0 THEN @ ELSE @ \cup {newFd}]
         IN  IF newFd < 0
             THEN [m |-> [m1 EXCEPT !.lastError = ErrOpen], ret |-> FALSE]
             ELSE IF failStep \in 2 .. Len(ConnectSteps)
             THEN [m |-> [m1 EXCEPT !.lastError = ConnectSteps[failStep]], ret |-> FALSE]
             ELSE [m |-> [m1 EXCEPT !.deviceConnected = TRUE], ret |-> TRUE]

\* bool MicroRngSPI::connect(const char *devicePath)
\* failStep: the number of the step the kernel refuses (0: none).  The two
\* read-back ioctls return what was just written, so spiMode, spiBits and
\* clockHz keep their values.
connect(m, failStep) ==
    IF isConnected(m)
    THEN [m |-> m, ret |-> FALSE]
    ELSE LET m0 == clearErrMsg(m)
             newFd == OpenResult(m0.openFds, failStep # 1)
             m1 == [m0 EXCEPT !.fd = newFd,
                              !.openFds = IF newFd < 0 THEN @ ELSE @ \cup {newFd}]
         IN  IF newFd < 0
             THEN [m |-> setErrMsg(m1, ErrOpen), ret |-> FALSE]
             ELSE IF failStep \in 2 .. Len(ConnectSteps)
             THEN [m |-> setErrMsg(CloseFd(m1, m1.fd), ConnectSteps[failStep]),
                   ret |-> FALSE]
             ELSE [m |-> [m1 EXCEPT !.deviceConnected = TRUE], ret |-> TRUE]

\* disconnect without its isConnected guard.
disconnectUnguarded(m) ==
    [m |-> initialize(CloseFd(m, m.fd)), ret |-> TRUE]

\* disconnect returning true also when there was nothing to disconnect.
disconnectAlwaysTrue(m) ==
    IF ~m.deviceConnected
    THEN [m |-> m, ret |-> TRUE]
    ELSE [m |-> initialize(CloseFd(m, m.fd)), ret |-> TRUE]

\* bool MicroRngSPI::disconnect()
disconnect(m) ==
    IF ~isConnected(m)
    THEN [m |-> m, ret |-> FALSE]
    ELSE [m |-> initialize(CloseFd(m, m.fd)), ret |-> TRUE]

\* The record of one transfer (struct spi_ioc_transfer and its outcome).
Transfer(m, cmd, retCode, ok, rx) ==
    [cmd |-> cmd, len |-> 1, speed_hz |-> m.clockHz, bits_per_word |-> spiBits,
     retCode |-> retCode, ok |-> ok, rx |-> rx]

\* bool MicroRngSPI::exhangeByte(char cmd, uint8_t *rx)
\* p is the address rx points to.  A failed ioctl leaves *rx as the zero
\* the method stored.
exhangeByte(m, cmd, p, o) ==
    IF ~isConnected(m)
    THEN [m |-> m, ret |-> FALSE]
    ELSE LET j == Len(m.xfers) + 1
             ok == OracleOk(o, j)
             m1 == [m EXCEPT !.buf[p] = 0, !.lastSentCommand = cmd]
         IN  IF ~ok
             THEN [m |-> [m1 EXCEPT !.xfers = Append(@, Transfer(m1, cmd, IoctlReturn(o, j), FALSE, 0)),
                                    !.lastError = ErrExchange],
                   ret |-> FALSE]
             ELSE [m |-> [m1 EXCEPT !.buf[p] = OracleRx(o, j),
                                    !.xfers = Append(@, Transfer(m1, cmd, IoctlReturn(o, j), TRUE, OracleRx(o, j)))],
                   ret |-> TRUE]

\* executeCommand without the priming exchange.
executeCommandNeverPrimes(m, cmd, p, o) ==
    IF ~m.deviceConnected
    THEN [m |-> m, ret |-> FALSE]
    ELSE exhangeByte(m, cmd, p, o)

\* executeCommand going on to the reading exchange after a failed priming one.
executeCommandIgnoresPriming(m, cmd, p, o) ==
    IF ~m.deviceConnected
    THEN [m |-> m, ret |-> FALSE]
    ELSE IF cmd # m.lastSentCommand
    THEN exhangeByte(exhangeByte(m, cmd, p, o).m, cmd, p, o)
    ELSE exhangeByte(m, cmd, p, o)

\* bool MicroRngSPI::executeCommand(char cmd, uint8_t *rx)
executeCommand(m, cmd, p, o) ==
    IF ~isConnected(m)
    THEN [m |-> m, ret |-> FALSE]
    ELSE IF cmd # m.lastSentCommand
    THEN LET r1 == exhangeByte(m, cmd, p, o)
         IN  IF ~r1.ret
             THEN [m |-> r1.m, ret |-> FALSE]
             ELSE exhangeByte(r1.m, cmd, p, o)
    ELSE exhangeByte(m, cmd, p, o)

\* The guarded single-byte methods: if (!isConnected()) return false;
\* return executeCommand(<opcode>, rx);
GuardedCommand(m, cmd, p, o) ==
    IF ~isConnected(m)
    THEN [m |-> m, ret |-> FALSE]
    ELSE executeCommand(m, cmd, p, o)

\* bool MicroRngSPI::retrieveDeviceStatusByte(uint8_t *rx)
retrieveDeviceStatusByte(m, p, o) == GuardedCommand(m, statusByteCommand, p, o)

\* bool MicroRngSPI::shutDownNoiseSources(uint8_t *rx)
shutDownNoiseSources(m, p, o) == GuardedCommand(m, shutDownCommand, p, o)

\* bool MicroRngSPI::startUpNoiseSources(uint8_t *rx)
startUpNoiseSources(m, p, o) == GuardedCommand(m, startUpCommand, p, o)

\* bool MicroRngSPI::resetUART(uint8_t *rx)
resetUART(m, p, o) == GuardedCommand(m, resetUartSpeedCommand, p, o)

\* bool MicroRngSPI::retrieveRandomByte(uint8_t *rx)
retrieveRandomByte(m, p, o) == GuardedCommand(m, randomByteCommand, p, o)

\* bool MicroRngSPI::retrieveTestByte(uint8_t *rx)
retrieveTestByte(m, p, o) == GuardedCommand(m, testCommand, p, o)

\* bool MicroRngSPI::retrieveRawRandomByte(uint8_t *rx)
retrieveRawRandomByte(m, p, o) == GuardedCommand(m, rawRandomByteCommand, p, o)

\* The single-byte method a multi-byte retrieval of opcode cmd calls.
retrieveByte(m, cmd, p, o) ==
    CASE cmd = randomByteCommand -> retrieveRandomByte(m, p, o)
      [] cmd = testCommand -> retrieveTestByte(m, p, o)
      [] cmd = rawRandomByteCommand -> retrieveRawRandomByte(m, p, o)

\* The retrieval loop without its break: it goes on after a failed call.
RECURSIVE RetrieveLoopNoBreak(_, _, _, _, _)
RetrieveLoopNoBreak(m, cmd, i, n, o) ==
    IF n <= 0
    THEN [m |-> m, broke |-> FALSE]
    ELSE RetrieveLoopNoBreak(retrieveByte(m, cmd, i + 1, o).m, cmd, i + 1, n - 1, o)

\* for (int i = 0; i < len; i++) { bool status = retrieveXxxByte(rx + i);
\*                                 if (!status) break; }
\* RetrieveLoop runs the n iterations i, i + 1, ... in order and stops at the
\* first whose call fails (broke); a run of n > 1 iterations is the run of
\* its first half followed, unless that broke, by the run of the rest.  The
\* status declared in the loop body is local to it: the machine after the
\* loop is all that leaves the loop.  rx + i is address i + 1.
RECURSIVE RetrieveLoop(_, _, _, _, _)
RetrieveLoop(m, cmd, i, n, o) ==
    IF n <= 0
    THEN [m |-> m, broke |-> FALSE]
    ELSE IF n = 1
    THEN LET r == retrieveByte(m, cmd, i + 1, o)
         IN  [m |-> r.m, broke |-> ~r.ret]
    ELSE LET first == RetrieveLoop(m, cmd, i, n \div 2, o)
         IN  IF first.broke
             THEN first
             ELSE RetrieveLoop(first.m, cmd, i + (n \div 2), n - (n \div 2), o)

\* The value the multi-byte retrievals return after their loop: the
\* function-scope "bool status = true" (status), which the loop, whether it
\* broke or not, never assigns.
RetrieveStatus(status, broke) == status

\* The shared body testing len < 0 where the code tests len <= 0.
retrieveBytesAllowsZero(m, cmd, errAmount, len, o) ==
    IF ~m.deviceConnected
    THEN [m |-> m, ret |-> FALSE]
    ELSE IF len < 0
    THEN [m |-> [m EXCEPT !.lastError = errAmount], ret |-> FALSE]
    ELSE [m |-> RetrieveLoop(m, cmd, 0, len, o).m, ret |-> TRUE]

\* The retrievals with a loop that starts at the second byte.
retrieveBytesSkipsFirst(m, cmd, errAmount, len, o) ==
    IF ~m.deviceConnected
    THEN [m |-> m, ret |-> FALSE]
    ELSE IF len <= 0
    THEN [m |-> [m EXCEPT !.lastError = errAmount], ret |-> FALSE]
    ELSE [m |-> RetrieveLoop(m, cmd, 1, len - 1, o).m, ret |-> TRUE]

\* The body shared by retrieveRandomBytes, retrieveTestBytes and
\* retrieveRawRandomBytes, which differ in the opcode and the error text.
retrieveBytes(m, cmd, errAmount, len, o) ==
    IF ~isConnected(m)
    THEN [m |-> m, ret |-> FALSE]
    ELSE IF len <= 0
    THEN [m |-> setErrMsg(m, errAmount), ret |-> FALSE]
    ELSE LET loop == RetrieveLoop(m, cmd, 0, len, o)
         IN  [m |-> loop.m, ret |-> RetrieveStatus(TRUE, loop.broke)]

\* bool MicroRngSPI::retrieveRandomBytes(int len, uint8_t *rx)
retrieveRandomBytes(m, len, o) ==
    retrieveBytes(m, randomByteCommand, ErrAmountRandom, len, o)

\* bool MicroRngSPI::retrieveTestBytes(int len, uint8_t *rx)
retrieveTestBytes(m, len, o) ==
    retrieveBytes(m, testCommand, ErrAmountTest, len, o)

\* bool MicroRngSPI::retrieveRawRandomBytes(int len, uint8_t *rx)
retrieveRawRandomBytes(m, len, o) ==
    retrieveBytes(m, rawRandomByteCommand, ErrAmountRaw, len, o)

\* Number of self-test samples validateDevice takes: for (int i = 1; i <= 16; ++i)
ValidateSamples == 16

\* The loop of validateDevice from sample i on.  transactionID lives at
\* address 1 of the method's local memory; begin is beginTransactionID, which
\* "++beginTransactionID" increments (mod 256) only when i != 1.
RECURSIVE ValidateDeviceLoop(_, _, _, _)
ValidateDeviceLoop(m, i, begin, o) ==
    IF ~(i <= ValidateSamples)
    THEN [m |-> m, ret |-> TRUE]
    ELSE LET r == executeCommand(m, testCommand, 1, o)
         IN  IF ~r.ret
             THEN [m |-> r.m, ret |-> FALSE]
             ELSE LET transactionID == r.m.buf[1]
                      seeded == IF i = 1 THEN transactionID ELSE begin
                      expected == IF i # 1 THEN IncByte(seeded) ELSE seeded
                  IN  IF i # 1 /\ transactionID # expected
                      THEN [m |-> setErrMsg(r.m, ErrDeviceNotFound), ret |-> FALSE]
                      ELSE ValidateDeviceLoop(r.m, i + 1, expected, o)

\* bool MicroRngSPI::validateDevice()
\* The locals are uninitialised when the loop starts (o.garbage); the
\* caller's memory is not touched.
validateDevice(m, o) ==
    IF ~isConnected(m)
    THEN [m |-> m, ret |-> FALSE]
    ELSE LET r == ValidateDeviceLoop([m EXCEPT !.buf = <<o.garbage>>], 1, o.garbage, o)
         IN  [m |-> [r.m EXCEPT !.buf = m.buf], ret |-> r.ret]

\* uint8_t testBuffer[2048]
TestBufferSize == 2048

\* The comparison loop of validateCommunication,
\*   for (unsigned int i = 0; i < sizeof(testBuffer); i++)
\* CheckTestBuffer runs its n iterations i, i + 1, ... in order (testBuffer[i]
\* is tb[i + 1]) from the given expectedTestByte, a uint8_t, and stops at the
\* first mismatch (ok = FALSE); a run of n > 1 iterations is the run of its
\* first half followed, unless that stopped, by the run of the rest.
RECURSIVE CheckTestBuffer(_, _, _, _)
CheckTestBuffer(tb, i, n, expectedTestByte) ==
    IF n <= 0
    THEN [expectedTestByte |-> expectedTestByte, ok |-> TRUE]
    ELSE IF n = 1
    THEN IF i = 0
         THEN [expectedTestByte |-> tb[i + 1], ok |-> TRUE]
         ELSE [expectedTestByte |-> IncByte(expectedTestByte),
               ok |-> ~(IncByte(expectedTestByte) # tb[i + 1])]
    ELSE LET first == CheckTestBuffer(tb, i, n \div 2, expectedTestByte)
         IN  IF ~first.ok
             THEN first
             ELSE CheckTestBuffer(tb, i + (n \div 2), n - (n \div 2),
                                  first.expectedTestByte)

\* validateCommunication comparing all bytes but the last one.
validateCommunicationSkipsLast(m, o) ==
    IF ~m.deviceConnected
    THEN [m |-> m, ret |-> FALSE]
    ELSE LET r == retrieveTestBytes([m EXCEPT !.buf = o.garbage], TestBufferSize, o)
             back == [r.m EXCEPT !.buf = m.buf]
         IN  IF ~r.ret
             THEN [m |-> back, ret |-> FALSE]
             ELSE IF CheckTestBuffer(r.m.buf, 0, TestBufferSize - 1, 0).ok
             THEN [m |-> back, ret |-> TRUE]
             ELSE [m |-> setErrMsg(back, ErrValidateComm), ret |-> FALSE]

\* bool MicroRngSPI::validateCommunication()
\* testBuffer is an uninitialised local array: it starts as o.garbage.
validateCommunication(m, o) ==
    IF ~isConnected(m)
    THEN [m |-> m, ret |-> FALSE]
    ELSE LET r == retrieveTestBytes([m EXCEPT !.buf = o.garbage], TestBufferSize, o)
             back == [r.m EXCEPT !.buf = m.buf]
         IN  IF ~r.ret
             THEN [m |-> back, ret |-> FALSE]
             ELSE IF CheckTestBuffer(r.m.buf, 0, TestBufferSize, 0).ok
             THEN [m |-> back, ret |-> TRUE]
             ELSE [m |-> setErrMsg(back, ErrValidateComm), ret |-> FALSE]

\* The oracle of calibration step s: the device answers the first o.pass
\* steps with o.good and the step after them with o.bad.
StepOracle(o, s) == IF s <= o.pass THEN o.good ELSE o.bad

\* What is kept of one calibration step: the frequency set, the result of
\* validateCommunication, and the transfers it issued (how many, at which
\* frequencies and word widths).
StepRecord(freqHz, status, xfers) ==
    [freqHz |-> freqHz, status |-> status, transfers |-> Len(xfers),
     speeds |-> {xfers[j].speed_hz : j \in 1 .. Len(xfers)},
     words |-> {xfers[j].bits_per_word : j \in 1 .. Len(xfers)},
     lens |-> {xfers[j].len : j \in 1 .. Len(xfers)}]

\* The loop of autodetectMaxFrequency:
\*   for (uint32_t freqHz = minClockHz; freqHz < maxClockHz; freqHz += minClockHz)
\* A run of the loop is a record [m, success, steps, ended]: the machine, the
\* local "success", the records of the steps taken, and whether the loop
\* was left (by its condition or by break).  The transfer log of the machine
\* is restarted for every step, so that in the end it holds the transfers of
\* the last step.

\* The loop body leaving the loop on a failure with the minimum frequency set.
AutodetectStepRestoresMinimum(prevClockHz, freqHz, success, steps, r) ==
    IF r.ret
    THEN [m |-> r.m, success |-> TRUE, ended |-> FALSE,
          steps |-> Append(steps, StepRecord(freqHz, TRUE, r.m.xfers))]
    ELSE [m |-> setMaxClockFrequency(r.m, minClockHz),
          success |-> success, ended |-> TRUE,
          steps |-> Append(steps, StepRecord(freqHz, FALSE, r.m.xfers))]

\* The loop body without its break: after a failing step the sweep goes on.
AutodetectStepNoBreak(prevClockHz, freqHz, success, steps, r) ==
    IF r.ret
    THEN [m |-> r.m, success |-> TRUE, ended |-> FALSE,
          steps |-> Append(steps, StepRecord(freqHz, TRUE, r.m.xfers))]
    ELSE [m |-> setMaxClockFrequency(r.m, prevClockHz),
          success |-> success, ended |-> FALSE,
          steps |-> Append(steps, StepRecord(freqHz, FALSE, r.m.xfers))]

\* The loop body leaving the failing frequency set.
AutodetectStepNoRestore(prevClockHz, freqHz, success, steps, r) ==
    IF r.ret
    THEN [m |-> r.m, success |-> TRUE, ended |-> FALSE,
          steps |-> Append(steps, StepRecord(freqHz, TRUE, r.m.xfers))]
    ELSE [m |-> r.m, success |-> success, ended |-> TRUE,
          steps |-> Append(steps, StepRecord(freqHz, FALSE, r.m.xfers))]

\* The rest of the loop body once validateCommunication returned r:
\*   if (status) { success = true; }
\*   else { setMaxClockFrequency(prevClockHz); break; }
AutodetectStep(prevClockHz, freqHz, success, steps, r) ==
    IF r.ret
    THEN [m |-> r.m, success |-> TRUE, ended |-> FALSE,
          steps |-> Append(steps, StepRecord(freqHz, TRUE, r.m.xfers))]
    ELSE [m |-> setMaxClockFrequency(r.m, prevClockHz),
          success |-> success, ended |-> TRUE,
          steps |-> Append(steps, StepRecord(freqHz, FALSE, r.m.xfers))]

\* One pass through the loop at freqHz, step number s: the test of the
\* condition and, if it holds, the body.
AutodetectIteration(m, freqHz, s, success, steps, o) ==
    IF ~(freqHz < maxClockHz)
    THEN [m |-> m, success |-> success, ended |-> TRUE, steps |-> steps]
    ELSE AutodetectStep(getMaxClockFrequency(m), freqHz, success, steps,
             validateCommunication(
                 setMaxClockFrequency([m EXCEPT !.xfers = <<>>], freqHz),
                 StepOracle(o, s)))

\* AutodetectLoop runs up to n passes through the loop in order, at freqHz,
\* freqHz + minClockHz, ..., and stops at the first that leaves the loop; a
\* run of n > 1 passes is the run of its first half followed, unless that
\* left the loop, by the run of the rest.
RECURSIVE AutodetectLoop(_, _, _, _, _, _, _)
AutodetectLoop(m, freqHz, s, n, success, steps, o) ==
    IF n <= 1
    THEN AutodetectIteration(m, freqHz, s, success, steps, o)
    ELSE LET first == AutodetectLoop(m, freqHz, s, n \div 2, success, steps, o)
         IN  IF first.ended
             THEN first
             ELSE AutodetectLoop(first.m, freqHz + (n \div 2) * minClockHz,
                                 s + (n \div 2), n - (n \div 2),
                                 first.success, first.steps, o)

\* No run of the loop makes more passes than this: the frequency of pass
\* s is s * minClockHz, and that of the last of them is not below maxClockHz.
LoopPasses == (maxClockHz \div minClockHz) + 1

\* bool MicroRngSPI::autodetectMaxFrequency()
autodetectMaxFrequency(m, o) ==
    IF ~isConnected(m)
    THEN [m |-> m, ret |-> FALSE, steps |-> <<>>]
    ELSE LET run == AutodetectLoop(m, minClockHz, 1, LoopPasses, FALSE, <<>>, o)
         IN  [m |-> run.m, ret |-> run.success, steps |-> run.steps]

\* The destructor closing the descriptor whatever the connection state.
destroyClosesAlways(m) == initialize(CloseFd(m, m.fd))

\* MicroRngSPI::~MicroRngSPI()
destroy(m) == IF isConnected(m) THEN disconnect(m).m ELSE m

-----------------------------------------------------------------------------
(* Inputs of the calls *)

\* Command bytes a caller hands to executeCommand.
Commands == {NoCommand, testCommand, randomByteCommand, shutDownCommand}

\* Most transfers a multi-byte retrieval of len bytes can issue.
MaxTransfers(len) == (IF len > 0 THEN len ELSE 0) + 1

\* The caller's buffer before a call: every byte 0xAA.
CallerBuffer == [i \in 1 .. MaxLen |-> 170]

\* What the device returns, transfer by transfer: a run that counts up from
\* base + 1 (mod 256).
Counting(base, n) == [j \in 1 .. n |-> (base + j) % ByteMod]

\* The same run with the byte of transfer d replaced (d = 0: none is).
Corrupted(base, n, d, delta) ==
    [j \in 1 .. n |-> IF j = d THEN (base + j + delta) % ByteMod
                               ELSE (base + j) % ByteMod]

\* Oracles of a call that issues at most n transfers: any one of them, or
\* none, fails.
Oracles(n) == [failAt : 0 .. n, rx : {Counting(253, n)}]

\* Oracles of validateDevice: a clean run, a run with one response off by
\* one, or a failing transfer.
DeviceOracles ==
    LET n == ValidateSamples + 1
    IN  [failAt : {0}, garbage : {0},
         rx : {Corrupted(250, n, d, 1) : d \in {0, 1, 2, 9, n}}]
        \cup [failAt : {1, 2, n}, garbage : {0}, rx : {Counting(250, n)}]

\* Oracles of validateCommunication that end the call early: the first or
\* the second transfer fails, and the stale stack contents (zeroes) do not
\* continue the run.
EarlyCommOracles ==
    [failAt : {1, 2}, garbage : {[i \in 1 .. TestBufferSize |-> 0]},
     rx : {Counting(16, TestBufferSize + 1)}]

\* Oracles of autodetectMaxFrequency whose first step already fails.
EarlySweepOracles ==
    {[pass |-> 0, good |-> o, bad |-> o] : o \in EarlyCommOracles}

\* The counting run with every byte from transfer d on shifted.
Shifted(base, n, d, delta) ==
    [j \in 1 .. n |-> IF j >= d THEN (base + j + delta) % ByteMod
                                ELSE (base + j) % ByteMod]

\* Response streams for validateDevice: counting runs from two bases (one of
\* them wraps within 16 samples), clean, with any one response replaced, or
\* shifted from any response on; and a stream that repeats one byte.
SampleStreams ==
    LET n == ValidateSamples + 1
    IN  {Corrupted(b, n, d, delta) : b \in {0, 250}, d \in 0 .. n, delta \in {1, 255}}
        \cup {Shifted(b, n, d, delta) : b \in {0, 250}, d \in 2 .. n, delta \in {1, 255}}
        \cup {[j \in 1 .. n |-> 7]}

\* Oracles of validateDevice over these streams, all transfers succeeding.
SampleOracles == [failAt : {0}, garbage : {255}, rx : SampleStreams]

\* Frequencies a caller sets.
CallerFrequencies == {minClockHz, 4 * minClockHz}

-----------------------------------------------------------------------------
(* The download tool mcrng (mcrng.cpp version 1.2): its globals are the     *)
(* fields of the record tool, its session "static MicroRngSPI spi" is the   *)
(* session of this module.                                                  *)

\* #define MCR_BUFF_FILE_SIZE_BYTES (32000)
MCR_BUFF_FILE_SIZE_BYTES == 32000

\* static int64_t numGenBytes = -1: the download is unlimited
Unlimited == -1

\* static uint32_t maxSpiMasterClock = 250000
DefaultSpiMasterClock == 250000

\* The process before main runs: pc is its position ("idle", in the loop of
\* the unlimited download "continuous", in the loops of the bounded one
\* "chunks", or "exited"), fileOpen says pOutputFile is not null, written
\* lists the blocks handed to fwrite (their length, how many of their leading
\* bytes a successful transfer delivered, and the number of the retrieval
\* that filled the buffer), retrievals and failures count the calls of
\* retrieveRandomBytes and those of them that had a failing transfer, status
\* is what processArguments returned and exit what main returned; cf keeps
\* the values of the -cf options of argv, and calls lists the calls made on
\* the session before the first retrieval.  A text is kept as its length:
\* copies lists the bytes each strcpy into devicePath wrote, and path is the
\* length of the device path handed to connect.  A process that wrote
\* past the end of a buffer may go on or be killed (pc = "killed").
ToolIdle ==
    [pc |-> "idle", numGenBytes |-> Unlimited,
     maxSpiMasterClock |-> DefaultSpiMasterClock, cf |-> <<>>, calls |-> <<>>,
     copies |-> <<>>, path |-> 0,
     chunkNum |-> 0, remaindDone |-> FALSE, fileOpen |-> FALSE,
     written |-> <<>>, retrievals |-> 0, failures |-> 0,
     status |-> 0, exit |-> 0]

\* int main(int argc, char **argv):
\*   if (!processArguments(argc, argv)) { return -1; } return 0;
main(status) == IF status = 0 THEN -1 ELSE 0

\* int64_t numCompleteChunks = numGenBytes / MCR_BUFF_FILE_SIZE_BYTES;
\* (numGenBytes is not negative where the model evaluates this)
numCompleteChunks(numGenBytes) == numGenBytes \div MCR_BUFF_FILE_SIZE_BYTES

\* The download without its last, incomplete chunk.
chunkRemaindBytesDropped(numGenBytes) == 0

\* uint32_t chunkRemaindBytes = (uint32_t) (numGenBytes % MCR_BUFF_FILE_SIZE_BYTES);
chunkRemaindBytes(numGenBytes) == numGenBytes % MCR_BUFF_FILE_SIZE_BYTES

\* #define DEFAULT_SPI_DEV_PATH "/dev/spidev0.0"
DEFAULT_SPI_DEV_PATH == "/dev/spidev0.0"

\* static char devicePath[256]
DevicePathSize == 256

\* strcpy(dst, src): the bytes it writes, for a text of the given length:
\* the text and its terminator.
strcpy(length) == length + 1

\* The copies into devicePath that processArguments makes: the default path
\* first, then the value of every -dp option (parseDevicePath).
DevicePathCopies(dp) ==
    <<strcpy(Len(DEFAULT_SPI_DEV_PATH))>> \o [i \in 1 .. Len(dp) |-> strcpy(dp[i])]

\* The length of the path devicePath holds after them.
DevicePathLength(dp) ==
    IF dp = <<>> THEN Len(DEFAULT_SPI_DEV_PATH) ELSE dp[Len(dp)]

\* char lastError[512]
LastErrorSize == 512

\* The bytes a write of text into lastError takes, terminator included:
\*   sprintf(lastError, "Could not open SPI device: %s", devicePath)
\* puts the path, of the given length, in the place of %s.
LastErrorBytes(text, pathLength) ==
    IF text = ErrOpen
    THEN Len(ErrOpen) - Len("%s") + pathLength + 1
    ELSE Len(text) + 1

\* What a process does once it wrote past the end of a buffer is undefined:
\* it goes on as if it had not, or it is killed.
OverflowOutcomes(overflowed) == IF overflowed THEN BOOLEAN ELSE {FALSE}

\* The value of a decimal digit; -1 for any other character.
DigitValue(c) ==
    CASE c = "0" -> 0 [] c = "1" -> 1 [] c = "2" -> 2 [] c = "3" -> 3
      [] c = "4" -> 4 [] c = "5" -> 5 [] c = "6" -> 6 [] c = "7" -> 7
      [] c = "8" -> 8 [] c = "9" -> 9 [] OTHER -> -1

\* The digits at the head of text taken as a continuation of the number
\* acc: the conversion stops at the first character that is no digit.
RECURSIVE LeadingDigits(_, _)
LeadingDigits(text, acc) ==
    IF text = <<>> \/ DigitValue(Head(text)) < 0
    THEN acc
    ELSE LeadingDigits(Tail(text), 10 * acc + DigitValue(Head(text)))

\* int atoi(const char *): a text is the sequence of its characters.  An
\* optional sign, then digits; 0 when there is no digit.  (The texts of the
\* model have values an int holds.)
atoi(text) ==
    IF text # <<>> /\ Head(text) = "-"
    THEN 0 - LeadingDigits(Tail(text), 0)
    ELSE IF text # <<>> /\ Head(text) = "+"
    THEN LeadingDigits(Tail(text), 0)
    ELSE LeadingDigits(text, 0)

\* The two 16-bit halves of a 32-bit word.
HalfWord == 65536

\* (uint32_t) v for an int v: the word of v modulo 2^32, as its two halves.
ToUint32(v) == [hi |-> (v \div HalfWord) % HalfWord, lo |-> v % HalfWord]

\* The product of a uint32_t and a small factor, in uint32_t arithmetic: the
\* bits above the 32nd are dropped.
MulUint32(u, k) ==
    LET low == u.lo * k
    IN  [hi |-> (u.hi * k + low \div HalfWord) % HalfWord,
         lo |-> low % HalfWord]

\* The number a uint32_t holds (the words of the model stay below 2^31).
Uint32Value(u) == u.hi * HalfWord + u.lo

\* maxSpiMasterClock = (uint32_t) atoi(argv[idx++]) * 1000;
ClockFromArgument(text) == Uint32Value(MulUint32(ToUint32(atoi(text)), 1000))

\* The parsing loop of processArguments.  A command line is one of: no
\* argument at all ("none": usage, -1), an option without its value
\* ("novalue": -1), a -nb value above 200000000000 ("toomany": -1), or a
\* line ("run") with the value of -nb (Unlimited when absent), the file of
\* -fn ("none" when absent), the texts of its -cf options in their order,
\* each of which overwrites maxSpiMasterClock, and the lengths of the
\* values of its -dp options.
ParseArguments(a) ==
    IF a.kind # "run"
    THEN [ok |-> FALSE, numGenBytes |-> Unlimited, filePathName |-> "none",
          maxSpiMasterClock |-> DefaultSpiMasterClock]
    ELSE [ok |-> TRUE, numGenBytes |-> a.nb, filePathName |-> a.fn,
          maxSpiMasterClock |-> IF a.cf = <<>>
                                THEN DefaultSpiMasterClock
                                ELSE ClockFromArgument(a.cf[Len(a.cf)])]

\* spi.retrieveRandomBytes(len, receiveByteBuffer) for a block: the run of
\* retrieveBytes told by its counts.  Transfer failAt of the call fails (0:
\* none does).  The call primes when the random-byte command was not sent
\* last, issues its transfers up to the failing one, and returns what
\* RetrieveStatus says; received is the number of bytes, from the start of
\* the buffer, that a successful reading transfer delivered.  Of the
\* transfers, the log keeps the last successful and the failed one.
retrieveRandomBlock(m, len, failAt) ==
    IF ~isConnected(m)
    THEN [m |-> m, ret |-> FALSE, received |-> 0, failed |-> FALSE]
    ELSE IF len <= 0
    THEN [m |-> setErrMsg(m, ErrAmountRandom), ret |-> FALSE,
          received |-> 0, failed |-> FALSE]
    ELSE LET prime == IF randomByteCommand # m.lastSentCommand THEN 1 ELSE 0
             failed == failAt \in 1 .. (len + prime)
             okCount == IF failed THEN failAt - 1 ELSE len + prime
             m1 == [m EXCEPT !.lastSentCommand = randomByteCommand]
             okLog == IF okCount > 0
                      THEN <<Transfer(m1, randomByteCommand, 1, TRUE, 0)>>
                      ELSE <<>>
             failLog == IF failed
                        THEN <<Transfer(m1, randomByteCommand, -1, FALSE, 0)>>
                        ELSE <<>>
         IN  [m |-> [m1 EXCEPT !.lastError = IF failed THEN ErrExchange ELSE @,
                               !.xfers = okLog \o failLog],
              ret |-> RetrieveStatus(TRUE, failed),
              received |-> IF okCount > prime THEN okCount - prime ELSE 0,
              failed |-> failed]

\* main returns with what processArguments returned: the process ends, and
\* the destructor of the static session runs.
ToolExit(m, t, status) ==
    [m |-> destroy(m),
     t |-> [t EXCEPT !.pc = "exited", !.status = status, !.exit = main(status)]]

\* A copy into devicePath went past its end.
DevicePathOverflows(dp) ==
    \E i \in 1 .. Len(DevicePathCopies(dp)) :
        DevicePathCopies(dp)[i] > DevicePathSize

\* mcrng is killed in processArguments, before it touches the session.
ToolKilled(m, a) ==
    [m |-> m,
     t |-> [ToolIdle EXCEPT !.pc = "killed",
                            !.copies = DevicePathCopies(a.dp)]]

\* A call a program made on its session: the method, its argument, what it
\* returned and the clock frequencies of the transfers it issued.
SessionCall(op, arg, ret, xfers) ==
    [op |-> op, arg |-> arg, ret |-> ret,
     speeds |-> {xfers[j].speed_hz : j \in 1 .. Len(xfers)}]

\* The start of handleDownloadRequest with the frequency set after the
\* device was validated.
OpenSessionValidatesFirst(m, hz, failStep, o) ==
    LET c == connect(m, failStep)
        v == validateDevice(c.m, o)
    IN  IF ~c.ret
        THEN [m |-> c.m, ret |-> FALSE,
              calls |-> <<SessionCall("connect", 0, FALSE, <<>>)>>]
        ELSE [m |-> setMaxClockFrequency(v.m, hz), ret |-> v.ret,
              calls |-> <<SessionCall("connect", 0, TRUE, <<>>),
                          SessionCall("validateDevice", 0, v.ret, v.m.xfers),
                          SessionCall("setMaxClockFrequency", hz, TRUE, <<>>)>>]

\* The start of handleDownloadRequest:
\*   if (!spi.connect(devicePath)) { ...; return -1; }
\*   spi.setMaxClockFrequency(maxSpiMasterClock);
\*   if (!spi.validateDevice()) { ...; return -1; }
OpenSession(m, hz, failStep, o) ==
    LET c == connect(m, failStep)
        v == validateDevice(setMaxClockFrequency(c.m, hz), o)
    IN  IF ~c.ret
        THEN [m |-> c.m, ret |-> FALSE,
              calls |-> <<SessionCall("connect", 0, FALSE, <<>>)>>]
        ELSE [m |-> v.m, ret |-> v.ret,
              calls |-> <<SessionCall("connect", 0, TRUE, <<>>),
                          SessionCall("setMaxClockFrequency", hz, TRUE, <<>>),
                          SessionCall("validateDevice", 0, v.ret, v.m.xfers)>>]

\* processArguments, processDownloadRequest and handleDownloadRequest up to
\* its loops: the arguments a, connect failing at failStep (0: it succeeds),
\* the device answering validateDevice as o says, fopen succeeding or not.
StartTool(m, a, failStep, o, opens) ==
    LET p == ParseArguments(a)
        v == OpenSession(m, p.maxSpiMasterClock, failStep, o)
        t == [ToolIdle EXCEPT !.numGenBytes = p.numGenBytes,
                              !.maxSpiMasterClock = p.maxSpiMasterClock,
                              !.cf = a.cf,
                              !.calls = v.calls,
                              !.copies = DevicePathCopies(a.dp),
                              !.path = DevicePathLength(a.dp)]
    IN  IF ~p.ok
        THEN ToolExit(m, [ToolIdle EXCEPT !.copies = DevicePathCopies(a.dp)], -1)
        ELSE IF ~v.ret
        THEN ToolExit(v.m, t, -1)
        ELSE IF p.filePathName = "none"
        THEN ToolExit(v.m, t, -1)
        ELSE IF ~opens
        THEN ToolExit(v.m, t, -1)
        ELSE [m |-> v.m,
              t |-> [t EXCEPT !.fileOpen = TRUE,
                              !.pc = IF p.numGenBytes = Unlimited
                                     THEN "continuous" ELSE "chunks"]]

\* The length of the block the loops of handleDownloadRequest fetch next.
NextBlockLength(t) ==
    IF t.pc = "continuous" \/ t.chunkNum < numCompleteChunks(t.numGenBytes)
    THEN MCR_BUFF_FILE_SIZE_BYTES
    ELSE chunkRemaindBytes(t.numGenBytes)

\* The bounded loops have a block left to fetch.
BlocksLeft(t) ==
    \/ t.chunkNum < numCompleteChunks(t.numGenBytes)
    \/ chunkRemaindBytes(t.numGenBytes) > 0 /\ ~t.remaindDone

\* One pass through a loop of handleDownloadRequest (the while loop of the
\* unlimited download, the for loop over the complete chunks, or the last
\* incomplete chunk):
\*   if (!spi.retrieveRandomBytes(n, receiveByteBuffer)) { ...; return -1; }
\*   writeBytes(receiveByteBuffer, n);
ToolBlock(m, t, failAt) ==
    LET len == NextBlockLength(t)
        r == retrieveRandomBlock(m, len, failAt)
        t1 == [t EXCEPT !.retrievals = @ + 1,
                        !.failures = IF r.failed THEN @ + 1 ELSE @]
    IN  IF ~r.ret
        THEN ToolExit(r.m, t1, -1)
        ELSE [m |-> r.m,
              t |-> [t1 EXCEPT
                       !.written = Append(@, [len |-> len,
                                              received |-> r.received,
                                              retrieval |-> t1.retrievals]),
                       !.chunkNum =
                           IF t.pc = "chunks"
                              /\ t.chunkNum < numCompleteChunks(t.numGenBytes)
                           THEN @ + 1 ELSE @,
                       !.remaindDone =
                           IF t.pc = "chunks"
                              /\ ~(t.chunkNum < numCompleteChunks(t.numGenBytes))
                           THEN TRUE ELSE @]]

\* static void closeHandle()
closeHandle(t) == [t EXCEPT !.fileOpen = FALSE]

\* The end of handleDownloadRequest: closeHandle(); return 0;
FinishTool(m, t) == ToolExit(m, closeHandle(t), 0)

-----------------------------------------------------------------------------
(* The sample program (sample.cpp version 1.1): it uses the record tool as *)
(* its process, with the positions "bytes" and "numbers" before its two    *)
(* retrievals, and a session "MicroRngSPI spi" local to main.              *)

\* #define BYTE_BUFF_SIZE (10)
BYTE_BUFF_SIZE == 10

\* #define DEC_BUFF_SIZE (10)
DEC_BUFF_SIZE == 10

\* sizeof(unsigned int)
SizeofUnsignedInt == 4

\* main returns status: the process ends, and the destructor of its session
\* runs.
SampleExit(m, t, status) ==
    [m |-> destroy(m),
     t |-> [t EXCEPT !.pc = "exited", !.status = status, !.exit = status]]

\* main up to its first retrieval:
\*   if (argc < 2) { ...; return -1; }
\*   if (!spi.connect(devicePath)) { ...; return -1; }
\*   if (!spi.validateDevice()) { ...; return -1; }
\* args are the arguments after the program's name, each a path length.
StartSample(m, args, failStep, o) ==
    LET hasPath == ~(Len(args) + 1 < 2)
        c == connect(m, failStep)
        v == validateDevice(c.m, o)
        t1 == [ToolIdle EXCEPT
                 !.calls = <<SessionCall("connect", 0, c.ret, <<>>)>>,
                 !.path = args[1]]
        t2 == [t1 EXCEPT
                 !.calls = Append(@, SessionCall("validateDevice", 0, v.ret,
                                                 v.m.xfers))]
    IN  IF ~hasPath
        THEN SampleExit(m, ToolIdle, -1)
        ELSE IF ~c.ret
        THEN SampleExit(c.m, t1, -1)
        ELSE IF ~v.ret
        THEN SampleExit(v.m, t2, -1)
        ELSE [m |-> v.m, t |-> [t2 EXCEPT !.pc = "bytes"]]

\* connect wrote its message past the end of lastError.
SampleOverflows(args, failStep) ==
    /\ args # <<>>
    /\ failStep = 1
    /\ LastErrorBytes(ErrOpen, args[1]) > LastErrorSize

\* The sample program is killed in connect.
SampleKilled(m, args, failStep) ==
    [m |-> connect(m, failStep).m,
     t |-> [ToolIdle EXCEPT !.pc = "killed", !.path = args[1]]]

\* The length of the retrieval the sample program issues next.
SampleLength(t) ==
    IF t.pc = "bytes" THEN BYTE_BUFF_SIZE ELSE DEC_BUFF_SIZE * SizeofUnsignedInt

\* One of the two retrievals of main:
\*   if (!spi.retrieveRandomBytes(n, buffer)) { ...; return -1; }
\* and, after the second, return (0).
SampleBlock(m, t, failAt) ==
    LET r == retrieveRandomBlock(m, SampleLength(t), failAt)
        t1 == [t EXCEPT !.retrievals = @ + 1,
                        !.failures = IF r.failed THEN @ + 1 ELSE @]
    IN  IF ~r.ret
        THEN SampleExit(r.m, t1, -1)
        ELSE IF t.pc = "bytes"
        THEN [m |-> r.m, t |-> [t1 EXCEPT !.pc = "numbers"]]
        ELSE SampleExit(r.m, t1, 0)

-----------------------------------------------------------------------------
(* The state machine *)

\* The machine a call starts from: the session's fields, the descriptor
\* table, the caller's buffer (refilled before every call) and no transfer yet.
Machine ==
    [deviceConnected |-> deviceConnected, fd |-> fd, clockHz |-> clockHz,
     lastSentCommand |-> lastSentCommand, lastError |-> lastError,
     openFds |-> openFds, badCloses |-> badCloses, buf |-> CallerBuffer,
     xfers |-> <<>>]

\* What the observation keeps of the state a call starts from.
Pre ==
    [deviceConnected |-> deviceConnected, clockHz |-> clockHz,
     lastSentCommand |-> lastSentCommand, buf |-> CallerBuffer,
     lastTransfer |-> lastTransfer]

\* The last transfer of the connection after a call that issued xfers and
\* left the session connected or not: the last of xfers; with no transfer,
\* what it was, unless the call opened or ended the connection.
LastTransferAfter(xfers, connected) ==
    IF xfers # <<>>
    THEN [cmd |-> xfers[Len(xfers)].cmd, ok |-> xfers[Len(xfers)].ok, none |-> FALSE]
    ELSE IF connected # deviceConnected
    THEN NoTransfer
    ELSE lastTransfer

\* The command the device received last after a call that issued xfers: the
\* command of the last transfer that succeeded (a failed ioctl transfers
\* nothing).
RECURSIVE PendingAfter(_, _)
PendingAfter(xfers, pending) ==
    IF xfers = <<>>
    THEN pending
    ELSE IF xfers[Len(xfers)].ok
    THEN xfers[Len(xfers)].cmd
    ELSE PendingAfter(SubSeq(xfers, 1, Len(xfers) - 1), pending)

\* The session object was destroyed: no method is called on it any more.
Destroyed == call.op = "~MicroRngSPI"

\* The call op(arg) ran from the current state and ended as r.
Commit(op, arg, r, steps) ==
    /\ ~Destroyed
    /\ deviceConnected' = r.m.deviceConnected
    /\ fd' = r.m.fd
    /\ clockHz' = r.m.clockHz
    /\ lastSentCommand' = r.m.lastSentCommand
    /\ lastError' = r.m.lastError
    /\ openFds' = r.m.openFds
    /\ badCloses' = r.m.badCloses
    /\ devicePending' = PendingAfter(r.m.xfers, devicePending)
    /\ buf' = r.m.buf
    /\ lastTransfer' = LastTransferAfter(r.m.xfers, r.m.deviceConnected)
    /\ call' = [op |-> op, arg |-> arg, ret |-> r.ret, xfers |-> r.m.xfers,
                steps |-> steps, pre |-> Pre]
    /\ tool' = tool

Init ==
    /\ deviceConnected = FALSE
    /\ fd = NoFd
    /\ clockHz = minClockHz
    /\ lastSentCommand = NoCommand
    /\ lastError = ErrNotConnected
    /\ openFds = {}
    /\ badCloses = {}
    /\ devicePending = NoCommand
    /\ lastTransfer = NoTransfer
    /\ buf = CallerBuffer
    /\ call = [op |-> "MicroRngSPI", arg |-> 0, ret |-> TRUE, xfers |-> <<>>,
               steps |-> <<>>,
               pre |-> [deviceConnected |-> FALSE, clockHz |-> minClockHz,
                        lastSentCommand |-> NoCommand, buf |-> CallerBuffer,
                        lastTransfer |-> NoTransfer]]
    /\ tool = ToolIdle

Connect ==
    \E failStep \in 0 .. Len(ConnectSteps) :
        Commit("connect", failStep, connect(Machine, failStep), <<>>)

Disconnect ==
    Commit("disconnect", 0, disconnect(Machine), <<>>)

ExecuteCommand ==
    \E cmd \in Commands, o \in Oracles(2) :
        Commit("executeCommand", cmd, executeCommand(Machine, cmd, 1, o), <<>>)

RetrieveDeviceStatusByte ==
    \E o \in Oracles(2) :
        Commit("retrieveDeviceStatusByte", statusByteCommand,
                   retrieveDeviceStatusByte(Machine, 1, o), <<>>)

ShutDownNoiseSources ==
    \E o \in Oracles(2) :
        Commit("shutDownNoiseSources", shutDownCommand,
                   shutDownNoiseSources(Machine, 1, o), <<>>)

StartUpNoiseSources ==
    \E o \in Oracles(2) :
        Commit("startUpNoiseSources", startUpCommand,
                   startUpNoiseSources(Machine, 1, o), <<>>)

ResetUART ==
    \E o \in Oracles(2) :
        Commit("resetUART", resetUartSpeedCommand,
                   resetUART(Machine, 1, o), <<>>)

RetrieveRandomByte ==
    \E o \in Oracles(2) :
        Commit("retrieveRandomByte", randomByteCommand,
                   retrieveRandomByte(Machine, 1, o), <<>>)

RetrieveTestByte ==
    \E o \in Oracles(2) :
        Commit("retrieveTestByte", testCommand,
                   retrieveTestByte(Machine, 1, o), <<>>)

RetrieveRawRandomByte ==
    \E o \in Oracles(2) :
        Commit("retrieveRawRandomByte", rawRandomByteCommand,
                   retrieveRawRandomByte(Machine, 1, o), <<>>)

RetrieveRandomBytes ==
    \E len \in -1 .. MaxLen : \E o \in Oracles(MaxTransfers(len)) :
        Commit("retrieveRandomBytes", len,
                   retrieveRandomBytes(Machine, len, o), <<>>)

RetrieveTestBytes ==
    \E len \in -1 .. MaxLen : \E o \in Oracles(MaxTransfers(len)) :
        Commit("retrieveTestBytes", len,
                   retrieveTestBytes(Machine, len, o), <<>>)

RetrieveRawRandomBytes ==
    \E len \in -1 .. MaxLen : \E o \in Oracles(MaxTransfers(len)) :
        Commit("retrieveRawRandomBytes", len,
                   retrieveRawRandomBytes(Machine, len, o), <<>>)

ValidateDevice ==
    \E o \in DeviceOracles :
        Commit("validateDevice", o.rx, validateDevice(Machine, o), <<>>)

ValidateCommunication ==
    \E o \in EarlyCommOracles :
        Commit("validateCommunication", 0,
               validateCommunication(Machine, o), <<>>)

AutodetectMaxFrequency ==
    \E o \in EarlySweepOracles :
        LET r == autodetectMaxFrequency(Machine, o)
        IN  Commit("autodetectMaxFrequency", 0, r, r.steps)

SetMaxClockFrequency ==
    \E hz \in CallerFrequencies :
        Commit("setMaxClockFrequency", hz,
               [m |-> setMaxClockFrequency(Machine, hz), ret |-> TRUE], <<>>)

\* The session object goes out of scope.
Destroy ==
    Commit("~MicroRngSPI", 0, [m |-> destroy(Machine), ret |-> TRUE], <<>>)

\* validateDevice against the sample streams.
ValidateDeviceSamples ==
    \E o \in SampleOracles :
        Commit("validateDevice", o.rx, validateDevice(Machine, o), <<>>)

Next ==
    \/ Connect
    \/ Disconnect
    \/ ExecuteCommand
    \/ RetrieveDeviceStatusByte
    \/ ShutDownNoiseSources
    \/ StartUpNoiseSources
    \/ ResetUART
    \/ RetrieveRandomByte
    \/ RetrieveTestByte
    \/ RetrieveRawRandomByte
    \/ RetrieveRandomBytes
    \/ RetrieveTestBytes
    \/ RetrieveRawRandomBytes
    \/ ValidateDevice
    \/ ValidateCommunication
    \/ AutodetectMaxFrequency
    \/ SetMaxClockFrequency
    \/ Destroy

Spec == Init /\ [][Next]_vars

-----------------------------------------------------------------------------
(* Reading the observation of the last call *)

\* The methods that are one executeCommand call; call.arg is the command.
CommandOps ==
    {"executeCommand", "retrieveDeviceStatusByte", "shutDownNoiseSources",
     "startUpNoiseSources", "resetUART", "retrieveRandomByte",
     "retrieveTestByte", "retrieveRawRandomByte"}

\* The multi-byte retrievals; call.arg is the requested count.
MultiOps == {"retrieveRandomBytes", "retrieveTestBytes", "retrieveRawRandomBytes"}

\* Every protocol operation: all but connect, disconnect, the frequency
\* setter and the error getter.
ProtocolOps ==
    CommandOps \cup MultiOps
    \cup {"validateDevice", "validateCommunication", "autodetectMaxFrequency"}

AllOk(xfers) == \A j \in 1 .. Len(xfers) : xfers[j].ok

SomeFailed(xfers) == \E j \in 1 .. Len(xfers) : ~xfers[j].ok

OkCount(xfers) == Cardinality({j \in 1 .. Len(xfers) : xfers[j].ok})

\* The opcode and the invalid-amount text of a multi-byte retrieval.
OpcodeOf(op) ==
    CASE op = "retrieveRandomBytes" -> randomByteCommand
      [] op = "retrieveTestBytes" -> testCommand
      [] op = "retrieveRawRandomBytes" -> rawRandomByteCommand

AmountErrorOf(op) ==
    CASE op = "retrieveRandomBytes" -> ErrAmountRandom
      [] op = "retrieveTestBytes" -> ErrAmountTest
      [] op = "retrieveRawRandomBytes" -> ErrAmountRaw

\* The transfer that went immediately before the last transfer of the call.
BeforeFinal(c) ==
    IF Len(c.xfers) >= 2
    THEN [cmd |-> c.xfers[Len(c.xfers) - 1].cmd,
          ok |-> c.xfers[Len(c.xfers) - 1].ok, none |-> FALSE]
    ELSE c.pre.lastTransfer

\* A multi-byte retrieval starts with a priming transfer when its opcode is
\* not the command sent last.
Primes(c) == OpcodeOf(c.op) # c.pre.lastSentCommand

\* The number of single-byte operations of a multi-byte retrieval that
\* succeeded, read from its transfers: every successful transfer but the
\* priming one completes one operation.
BytesDone(c) ==
    IF Primes(c)
    THEN (IF OkCount(c.xfers) > 0 THEN OkCount(c.xfers) - 1 ELSE 0)
    ELSE OkCount(c.xfers)

\* The response that completed single-byte operation i (1, 2, ...).
ResponseOf(c, i) == c.xfers[i + (IF Primes(c) THEN 1 ELSE 0)].rx

\* The i-th self-test response the device gives a validateDevice call whose
\* response stream is call.arg: the responses of its reading transfers, that
\* is, of all its transfers but a priming one.
Sample(c, i) ==
    c.arg[i + (IF testCommand # c.pre.lastSentCommand THEN 1 ELSE 0)]

\* The 16 responses differ from a counting run in exactly one place.  (A
\* run they differ from in one place agrees with them on the first or the
\* second response, which fixes its base.)
OneSampleCorrupted(c) ==
    \E s \in 1 .. 2 :
        LET base == (Sample(c, s) + ByteMod - s) % ByteMod
        IN  Cardinality({i \in 1 .. ValidateSamples :
                            Sample(c, i) # (base + i) % ByteMod}) = 1

-----------------------------------------------------------------------------
(* Claims *)

\* C1 (as claimed; the code violates it).  Pipeline validity: whenever an
\* executeCommand(C) for one of the named opcodes C returns success on a
\* connected session, the transfer immediately before its final transfer was
\* a successfully completed transfer that sent C.  (The code records C as
\* last sent before the transfer's outcome is known, so after a failed
\* priming transfer the next executeCommand(C) reads without priming.)
C1_PipelineValidity ==
    (/\ call.op \in CommandOps
     /\ call.pre.deviceConnected
     /\ call.arg \in NamedCommands
     /\ call.ret)
    => (/\ ~BeforeFinal(call).none
        /\ BeforeFinal(call).ok
        /\ BeforeFinal(call).cmd = call.arg)

\* C2.  Transfer count: on a connected session, an executeCommand(C) call
\* whose transfers all succeed issues exactly two transfers when C differs
\* from the command sent by the previous executeCommand call of the
\* connection and exactly one when it equals it; every transfer sends C, and
\* afterwards the last-sent command is C.
C2_TransferCount ==
    (/\ call.op \in CommandOps
     /\ call.pre.deviceConnected
     /\ ~call.pre.lastTransfer.none
     /\ AllOk(call.xfers))
    => (/\ Len(call.xfers) = (IF call.arg # call.pre.lastTransfer.cmd THEN 2 ELSE 1)
        /\ \A j \in 1 .. Len(call.xfers) : call.xfers[j].cmd = call.arg
        /\ lastSentCommand = call.arg
        /\ call.ret)

\* C2's case: a command switch that cost two transfers.
C2_Witness ==
    /\ call.op = "executeCommand"
    /\ call.pre.deviceConnected
    /\ ~call.pre.lastTransfer.none
    /\ call.arg # call.pre.lastTransfer.cmd
    /\ Len(call.xfers) = 2
    /\ AllOk(call.xfers)
    /\ call.ret

\* C3 (as claimed; the code violates it).  A multi-byte retrieval of n > 0
\* bytes on a connected session whose single-byte operation fails issues no
\* further transfer and returns failure.
C3_FirstFailurePropagates ==
    (/\ call.op \in MultiOps
     /\ call.pre.deviceConnected
     /\ call.arg > 0
     /\ SomeFailed(call.xfers))
    => (/\ ~call.xfers[Len(call.xfers)].ok
        /\ OkCount(call.xfers) = Len(call.xfers) - 1
        /\ call.ret = FALSE)

\* C4.  Every protocol operation called on a Disconnected session returns
\* failure, issues no transfer (and runs no calibration step), and leaves
\* the clock frequency, the last-sent command and the connection state as
\* they were.
C4_DisconnectedFailsFast ==
    (/\ call.op \in ProtocolOps
     /\ ~call.pre.deviceConnected)
    => (/\ call.ret = FALSE
        /\ call.xfers = <<>>
        /\ call.steps = <<>>
        /\ clockHz = call.pre.clockHz
        /\ lastSentCommand = call.pre.lastSentCommand
        /\ ~deviceConnected)

\* C4's case: calibration asked of a Disconnected session whose frequency
\* the caller had set.
C4_Witness ==
    /\ call.op = "autodetectMaxFrequency"
    /\ ~call.pre.deviceConnected
    /\ call.pre.clockHz # minClockHz
    /\ call.ret = FALSE

\* C5.  connect from Disconnected: the session becomes Connected exactly
\* when the open and all six configuration steps succeed (call.arg = 0);
\* when step call.arg fails, connect returns failure, the session stays
\* Disconnected, no descriptor is left open, and the last error is the text
\* of that step.
C5_ConnectAllOrNothing ==
    (/\ call.op = "connect"
     /\ ~call.pre.deviceConnected)
    => (/\ call.ret = (call.arg = 0)
        /\ deviceConnected = (call.arg = 0)
        /\ call.arg = 0 => openFds = {fd}
        /\ call.arg # 0 => openFds = {}
        /\ call.arg = 1 => lastError = "Could not open SPI device: %s" /\ fd = NoFd
        /\ call.arg = 2 => lastError = "Could not set SPI write mode"
        /\ call.arg = 3 => lastError = "Could not set SPI read mode"
        /\ call.arg = 4 => lastError = "Could not set SPI transmission word bits"
        /\ call.arg = 5 => lastError = "Could not set SPI word bits"
        /\ call.arg = 6 => lastError = "Could not set SPI transmission clock frequency"
        /\ call.arg = 7 => lastError = "Could not set SPI clock frequency")

\* C5's case: the clock read-back, the last step, failed after the device
\* had been opened; the descriptor was closed again.
C5_Witness ==
    /\ call.op = "connect"
    /\ ~call.pre.deviceConnected
    /\ call.arg = 7
    /\ call.ret = FALSE
    /\ ~deviceConnected
    /\ fd # NoFd
    /\ openFds = {}

\* C6.  Every disconnect step leaves the session Disconnected; from a
\* Connected session it closes the session's descriptor; from a Disconnected
\* session it closes nothing and changes no field of the session, so a
\* second disconnect in a row changes nothing.
C6_DisconnectIdempotent ==
    [][call'.op = "disconnect"
       => (/\ ~deviceConnected'
           /\ deviceConnected => (fd \in openFds /\ openFds' = openFds \ {fd})
           /\ ~deviceConnected => UNCHANGED <<deviceConnected, fd, clockHz,
                                              lastSentCommand, lastError, openFds>>
           /\ call.op = "disconnect" => UNCHANGED <<deviceConnected, fd, clockHz,
                                                    lastSentCommand, lastError, openFds>>)]_vars

\* C6's case: a disconnect that found the session Connected and closed the
\* descriptor.
C6_Witness ==
    /\ call.op = "disconnect"
    /\ call.pre.deviceConnected
    /\ ~deviceConnected
    /\ openFds = {}
    /\ fd = NoFd

\* C7 (as claimed).  disconnect reports no failure in any session state.
C7_DisconnectNeverFails ==
    call.op = "disconnect" => call.ret = TRUE

\* C7 (amended).  disconnect reports success exactly when the session was
\* Connected: it returns true from Connected and false from Disconnected.
C7_DisconnectFailsOnlyWhenDisconnected ==
    call.op = "disconnect" => call.ret = call.pre.deviceConnected

\* C7's case: a disconnect of a Disconnected session, which returned false.
C7_Witness ==
    /\ call.op = "disconnect"
    /\ ~call.pre.deviceConnected
    /\ call.ret = FALSE

\* C8.  On a connected session a multi-byte retrieval called with
\* count <= 0 returns failure, sets the last error to its invalid-amount
\* text, issues no transfer and leaves the last-sent command and the
\* caller's buffer unchanged.
C8_InvalidAmount ==
    (/\ call.op \in MultiOps
     /\ call.pre.deviceConnected
     /\ call.arg <= 0)
    => (/\ call.ret = FALSE
        /\ lastError = AmountErrorOf(call.op)
        /\ call.xfers = <<>>
        /\ lastSentCommand = call.pre.lastSentCommand
        /\ buf = call.pre.buf)

\* C8's case: a count of 0 on a connected session that had sent a command.
C8_Witness ==
    /\ call.op = "retrieveRawRandomBytes"
    /\ call.pre.deviceConnected
    /\ call.arg = 0
    /\ call.pre.lastSentCommand # NoCommand
    /\ call.ret = FALSE

C27_ByteFromFollowingTransfer ==
    (/\ call.op \in MultiOps
     /\ call.pre.deviceConnected
     /\ call.arg > 0
     /\ AllOk(call.xfers))
    => (/\ Len(call.xfers) = call.arg + (IF Primes(call) THEN 1 ELSE 0)
        /\ \A i \in 1 .. call.arg :
               LET next == i + (IF Primes(call) THEN 1 ELSE 0) + 1
               IN  /\ next <= Len(call.xfers)
                   /\ buf[i] = call.xfers[next].rx)

\* C27 (amended).  With all transfers succeeding, a multi-byte retrieval of
\* n > 0 bytes issues exactly n transfers when the last-sent command is
\* already its opcode and n + 1 otherwise, every transfer sending the opcode,
\* and byte i of the output is the byte received by the i-th non-priming
\* transfer itself; the priming transfer's response is never stored.
C27_ByteFromOwnTransfer ==
    (/\ call.op \in MultiOps
     /\ call.pre.deviceConnected
     /\ call.arg > 0
     /\ AllOk(call.xfers))
    => (/\ call.ret
        /\ Len(call.xfers) = call.arg + (IF Primes(call) THEN 1 ELSE 0)
        /\ \A j \in 1 .. Len(call.xfers) : call.xfers[j].cmd = OpcodeOf(call.op)
        /\ \A i \in 1 .. call.arg : buf[i] = ResponseOf(call, i)
        /\ Primes(call) => \A i \in 1 .. call.arg : buf[i] # call.xfers[1].rx
        /\ \A i \in (call.arg + 1) .. MaxLen : buf[i] = call.pre.buf[i])

\* C27's case: a primed retrieval of three bytes in four transfers, and an
\* unprimed one in three, all transfers succeeding.
C27_Witness ==
    /\ call.op \in MultiOps
    /\ call.pre.deviceConnected
    /\ call.arg = 3
    /\ AllOk(call.xfers)
    /\ Primes(call)
    /\ Len(call.xfers) = 4
    /\ buf = <<call.xfers[2].rx, call.xfers[3].rx, call.xfers[4].rx>>

C27_WitnessUnprimed ==
    /\ call.op \in MultiOps
    /\ call.pre.deviceConnected
    /\ call.arg = 3
    /\ AllOk(call.xfers)
    /\ ~Primes(call)
    /\ Len(call.xfers) = 3
    /\ buf = <<call.xfers[1].rx, call.xfers[2].rx, call.xfers[3].rx>>

\* C10.  validateDevice, when all its transfers succeed, returns success if
\* and only if the 16 self-test responses r1..r16 satisfy
\* r(i) = (r1 + i - 1) mod 256 for every i in 2..16; in particular it fails
\* on every run of 16 responses that differs from a counting run in exactly
\* one response.
C10_ValidateDeviceIffCounting ==
    (/\ call.op = "validateDevice"
     /\ call.pre.deviceConnected
     /\ AllOk(call.xfers))
    => (/\ call.ret = (\A i \in 2 .. ValidateSamples :
                          Sample(call, i) = (Sample(call, 1) + i - 1) % ByteMod)
        /\ OneSampleCorrupted(call) => call.ret = FALSE)

\* C10's case: a validation that succeeded on responses that wrap from 255
\* to 0.
C10_Witness ==
    /\ call.op = "validateDevice"
    /\ call.pre.deviceConnected
    /\ AllOk(call.xfers)
    /\ Len(call.xfers) >= ValidateSamples
    /\ call.ret
    /\ \E i \in 1 .. (ValidateSamples - 1) :
           Sample(call, i) = 255 /\ Sample(call, i + 1) = 0

-----------------------------------------------------------------------------
(* The specification of device validation: a session that is connected,   *)
(* sends the self-test or the status command, and validates the device    *)
(* against the sample streams.                                            *)

NextDevice ==
    \/ Connect
    \/ Disconnect
    \/ RetrieveTestByte
    \/ RetrieveDeviceStatusByte
    \/ ValidateDeviceSamples

SpecDevice == Init /\ [][NextDevice]_vars

-----------------------------------------------------------------------------
(* Claims on errors, calibration and the clock *)

\* C11 (as claimed; the code violates it).  Every failing validateDevice
\* call on a connected session leaves the device-not-found message as the
\* last error, whether a response deviated or a transfer failed.  (After a
\* failed transfer the code returns with the exchange message that
\* exhangeByte set.)
C11_ValidateDeviceFailsNotFound ==
    (/\ call.op = "validateDevice"
     /\ call.pre.deviceConnected
     /\ ~call.ret)
    => lastError = ErrDeviceNotFound

\* The first calibration step of the last call failed.
FirstStepFailed(c) ==
    /\ c.op = "autodetectMaxFrequency"
    /\ c.pre.deviceConnected
    /\ Len(c.steps) >= 1
    /\ c.steps[1].freqHz = minClockHz
    /\ ~c.steps[1].status

\* C14 (as claimed; the code violates it).  If validateCommunication fails
\* at the first (250000 Hz) calibration step, autodetectMaxFrequency returns
\* failure and the clock frequency of the session is the attempted, failing
\* one, whatever it was before the call.
C14_FirstStepFailureLeavesAttempted ==
    FirstStepFailed(call)
    => (/\ ~call.ret
        /\ Len(call.steps) = 1
        /\ clockHz = call.steps[1].freqHz)

\* C14 (amended).  If validateCommunication fails at the first calibration
\* step, autodetectMaxFrequency returns failure after that one step and the
\* clock frequency of the session is again what it was before the call.
C14_FirstStepFailureRestoresClock ==
    FirstStepFailed(call)
    => (/\ ~call.ret
        /\ Len(call.steps) = 1
        /\ clockHz = call.pre.clockHz)

\* C14's case: a calibration that failed at its first step on a session
\* whose clock was not the minimum frequency.
C14_Witness ==
    /\ FirstStepFailed(call)
    /\ call.pre.clockHz # minClockHz
    /\ call.steps[1].transfers >= 1
    /\ call.steps[1].speeds = {minClockHz}

\* The messages that describe the failure of call c: the text of the step
\* connect failed at (connect has no text for a session that is connected
\* already), the not-connected text for any other operation on a
\* disconnected session, and on a connected one the exchange text, the
\* invalid-amount text of the retrieval, or the text of the validation.
FailureMessages(c) ==
    IF c.op = "connect"
    THEN IF c.pre.deviceConnected \/ c.arg \notin 1 .. Len(ConnectSteps)
         THEN {}
         ELSE {ConnectSteps[c.arg]}
    ELSE IF ~c.pre.deviceConnected
    THEN {ErrNotConnected}
    ELSE IF c.op \in CommandOps
    THEN {ErrExchange}
    ELSE IF c.op \in MultiOps
    THEN IF c.arg <= 0 THEN {AmountErrorOf(c.op)} ELSE {ErrExchange}
    ELSE IF c.op = "validateDevice"
    THEN {ErrExchange, ErrDeviceNotFound}
    ELSE IF c.op \in {"validateCommunication", "autodetectMaxFrequency"}
    THEN {ErrExchange, ErrValidateComm}
    ELSE {}

\* C16 (as claimed; the code violates it).  After any operation of the
\* session that returns failure, the last error is a message describing
\* that failure, not the message an earlier operation left.  (An operation
\* refused because the session is not connected, or connect refused because
\* it is, returns false and leaves the message as it was.)
C16_FailureOverwritesLastError ==
    (call.op # "MicroRngSPI" /\ ~call.ret)
    => lastError \in FailureMessages(call)

\* C17.  setMaxClockFrequency(hz) in any session state cannot fail, issues
\* no transfer and no driver call, sets the clock frequency to hz and leaves
\* the connection state, the descriptor, the last-sent command and the last
\* error unchanged; getMaxClockFrequency then returns hz.
C17_SetClockIsPureSet ==
    [][call'.op = "setMaxClockFrequency"
       => (/\ call'.ret
           /\ call'.xfers = <<>>
           /\ clockHz' = call'.arg
           /\ getMaxClockFrequency(Machine)' = call'.arg
           /\ UNCHANGED <<deviceConnected, fd, openFds, lastSentCommand,
                          lastError, lastTransfer>>)]_vars

\* C17's case: a frequency set on a disconnected session that holds the
\* message of a failed connect, and one set on a connected session after a
\* command was sent.
C17_Witness ==
    /\ call.op = "setMaxClockFrequency"
    /\ clockHz = 4 * minClockHz
    /\ call.pre.clockHz = minClockHz
    /\ \/ ~deviceConnected /\ lastError = ErrOpen
       \/ deviceConnected /\ lastSentCommand = testCommand

\* C19 (as claimed; the code violates it).  When no transfer has yet
\* occurred on the connection, an executeCommand(C) whose transfers succeed
\* issues exactly two transfers, for every command byte C, the byte 0
\* included.  (lastSentCommand starts as '\0', so executeCommand(0) is taken
\* for a repetition and issues the reading transfer only.)
C19_FirstCommandPrimes ==
    (/\ call.op \in CommandOps
     /\ call.pre.deviceConnected
     /\ call.pre.lastTransfer.none
     /\ AllOk(call.xfers))
    => Len(call.xfers) = 2

\* C20.  executeCommand aborts on the first failing transfer: no transfer
\* follows a failed one, so after a failed priming transfer exactly one
\* transfer was attempted; and whichever transfer fails, the call returns
\* failure with the exchange message as the last error.
C20_AbortsOnFirstFailure ==
    (/\ call.op \in CommandOps
     /\ call.pre.deviceConnected
     /\ SomeFailed(call.xfers))
    => (/\ ~call.ret
        /\ lastError = ErrExchange
        /\ \A j \in 1 .. (Len(call.xfers) - 1) : call.xfers[j].ok
        /\ (call.arg # call.pre.lastSentCommand /\ ~call.xfers[1].ok)
               => Len(call.xfers) = 1)

\* C20's case: a command whose priming transfer failed.
C20_Witness ==
    /\ call.op \in CommandOps
    /\ call.pre.deviceConnected
    /\ call.arg # call.pre.lastSentCommand
    /\ Len(call.xfers) = 1
    /\ ~call.xfers[1].ok
    /\ ~call.ret

\* C20's other case: the reading transfer failed after a successful priming
\* one.
C20_WitnessReading ==
    /\ call.op \in CommandOps
    /\ Len(call.xfers) = 2
    /\ call.xfers[1].ok
    /\ ~call.xfers[2].ok
    /\ ~call.ret

\* C18.  Handle discipline: at most one descriptor is open at any time, an
\* open descriptor is the one of the connected session (so disconnect or the
\* destructor will close it), no descriptor is ever closed while it is not
\* open (no handle is closed twice), and once the session is destroyed no
\* descriptor is open (none is leaked).
C18_HandleDiscipline ==
    /\ Cardinality(openFds) <= 1
    /\ openFds = (IF deviceConnected THEN {fd} ELSE {})
    /\ badCloses = {}
    /\ Destroyed => openFds = {}

\* C18's case: the destruction of a connected session, after an earlier
\* connect had failed at a configuration step, closed the handle.
C18_Witness ==
    /\ Destroyed
    /\ call.pre.deviceConnected
    /\ openFds = {}
    /\ fd = NoFd

\* C18's other case: a session destroyed after a connect that failed at a
\* configuration step (fd still holds the closed descriptor).
C18_WitnessFailedConnect ==
    /\ Destroyed
    /\ ~call.pre.deviceConnected
    /\ fd # NoFd
    /\ openFds = {}

-----------------------------------------------------------------------------
(* Claims on the opcodes and on what a disconnect leaves *)

\* The seven named single-byte operations.
NamedOps == CommandOps \ {"executeCommand"}

\* The opcode spec.md gives each named operation, as ASCII codes: 't', 'l',
\* 's', 'r', 'D', 'U', 'R'.
ClaimedOpcode(op) ==
    CASE op = "retrieveTestByte" -> 116
      [] op = "retrieveRandomByte" -> 108
      [] op = "retrieveDeviceStatusByte" -> 115
      [] op = "retrieveRawRandomByte" -> 114
      [] op = "shutDownNoiseSources" -> 68
      [] op = "startUpNoiseSources" -> 85
      [] op = "resetUART" -> 82

\* C25.  Each named operation sends only its own fixed opcode ('t', 'l',
\* 's', 'r', 'D', 'U', 'R'); the seven opcodes are pairwise distinct and
\* none is the "no command sent yet" value 0; so a named operation that is
\* the first after connect, or the first after another named operation's
\* opcode was sent, is primed: with its transfers succeeding it issues two
\* transfers, both sending its opcode.
C25_NamedOpcodesPrime ==
    /\ Cardinality(NamedCommands) = 7
    /\ NoCommand \notin NamedCommands
    /\ (call.op = "connect" /\ call.ret) => lastSentCommand = NoCommand
    /\ call.op \in NamedOps =>
           \A j \in 1 .. Len(call.xfers) :
               call.xfers[j].cmd = ClaimedOpcode(call.op)
    /\ (/\ call.op \in NamedOps
        /\ call.pre.deviceConnected
        /\ AllOk(call.xfers)
        /\ \/ call.pre.lastTransfer.none
           \/ /\ call.pre.lastTransfer.cmd \in NamedCommands
              /\ call.pre.lastTransfer.cmd # ClaimedOpcode(call.op))
       => (Len(call.xfers) = 2 /\ call.ret)

\* C25's case: reset-uart primed as the first operation of a connection, and
\* primed again right after the raw-random opcode was sent.
C25_Witness ==
    /\ call.op = "resetUART"
    /\ call.pre.deviceConnected
    /\ call.pre.lastTransfer.none
    /\ AllOk(call.xfers)
    /\ Len(call.xfers) = 2

C25_WitnessSwitch ==
    /\ call.op = "resetUART"
    /\ call.pre.deviceConnected
    /\ ~call.pre.lastTransfer.none
    /\ call.pre.lastTransfer.cmd = rawRandomByteCommand
    /\ AllOk(call.xfers)
    /\ Len(call.xfers) = 2

\* The last call was a disconnect that succeeded.
Disconnected == call.op = "disconnect" /\ call.ret

\* connect, with the call it followed kept in the record of the call.
ConnectAfter ==
    \E failStep \in 0 .. Len(ConnectSteps) :
        Commit("connect", failStep, connect(Machine, failStep),
               <<[op |-> call.op, ret |-> call.ret]>>)

\* A client that connects, sets a frequency, sends commands, disconnects and
\* connects again.
NextReconnect ==
    \/ ConnectAfter
    \/ Disconnect
    \/ SetMaxClockFrequency
    \/ ExecuteCommand

SpecReconnect == Init /\ [][NextReconnect]_vars

\* The last call was a connect that succeeded right after a disconnect that
\* succeeded.
Reconnected ==
    /\ call.op = "connect"
    /\ call.ret
    /\ call.steps = <<[op |-> "disconnect", ret |-> TRUE]>>

\* C24 (as claimed; the code violates it).  No session state survives a
\* disconnect: after a successful disconnect the clock frequency is 250000
\* Hz, the last-sent command is "none" and the last error is "Not
\* Connected"; consequently the first command after a reconnect is primed:
\* with its transfers succeeding it issues two of them.
C24_NothingSurvivesDisconnect ==
    [][/\ Disconnected' =>
              (/\ ~deviceConnected'
               /\ clockHz' = minClockHz
               /\ lastSentCommand' = NoCommand
               /\ lastError' = ErrNotConnected)
       /\ (/\ Reconnected
           /\ call'.op \in CommandOps
           /\ AllOk(call'.xfers)) => Len(call'.xfers) = 2]_vars

-----------------------------------------------------------------------------
(* Sleep and wake against a healthy device (the sequence of the diagnostic *)
(* program: shutDownNoiseSources, then startUpNoiseSources).               *)

\* The byte the device answers the sleep command with, and the wake command.
SleepResponse == 200

WakeResponse == 0

\* What the device answers any other command with (its value does not matter
\* as long as it is neither sentinel).
OtherResponses == {77, 1}

\* The answer of a healthy device to the command it received.
DeviceAnswer(cmd, other) ==
    CASE cmd = shutDownCommand -> SleepResponse
      [] cmd = startUpCommand -> WakeResponse
      [] OTHER -> other

\* The device is one command behind: the byte it returns in a transfer
\* answers the command of the transfer before (pending, for the first).
HealthyResponses(pending, cmds, other) ==
    [j \in 1 .. Len(cmds) |->
        DeviceAnswer(IF j = 1 THEN pending ELSE cmds[j - 1], other)]

\* The commands the two calls send when every transfer succeeds: the sleep
\* command once or twice, then the wake command twice.
SleepWakeCommands(lastSent) ==
    (IF shutDownCommand # lastSent
     THEN <<shutDownCommand, shutDownCommand>>
     ELSE <<shutDownCommand>>)
    \o <<startUpCommand, startUpCommand>>

\* The result of one of the two calls: its status and the byte in testBuff[0].
CallResult(r) == [status |-> r.ret, rx |-> r.m.buf[1]]

\* status = spi.shutDownNoiseSources(testBuff); if (!status) return -1;
\* if (testBuff[0] != 200) return -1;
\* status = spi.startUpNoiseSources(testBuff); ...
sleepThenWake(m, o) ==
    LET r1 == shutDownNoiseSources(m, 1, o)
    IN  IF ~r1.ret \/ r1.m.buf[1] # SleepResponse
        THEN [m |-> r1.m, ret |-> FALSE, steps |-> <<CallResult(r1)>>]
        ELSE LET r2 == startUpNoiseSources(r1.m, 1, o)
             IN  [m |-> r2.m,
                  ret |-> r2.ret /\ r2.m.buf[1] = WakeResponse,
                  steps |-> <<CallResult(r1), CallResult(r2)>>]

SleepThenWake ==
    \E failAt \in 0 .. 4, other \in OtherResponses :
        LET o == [failAt |-> failAt,
                  rx |-> HealthyResponses(devicePending,
                                          SleepWakeCommands(lastSentCommand),
                                          other)]
            r == sleepThenWake(Machine, o)
        IN  Commit("sleepThenWake", other, r, r.steps)

NextSleepWake ==
    \/ Connect
    \/ Disconnect
    \/ ExecuteCommand
    \/ ShutDownNoiseSources
    \/ StartUpNoiseSources
    \/ RetrieveRandomByte
    \/ SleepThenWake

SpecSleepWake == Init /\ [][NextSleepWake]_vars

\* C15 (as claimed; the code violates it).  Against a healthy device,
\* sleep() followed immediately by wake(), with all their transfers
\* succeeding, return 200 and then 0, whatever command was sent last before
\* sleep(): neither returns the stale answer to an earlier command.  (When
\* the command sent last was a sleep command whose transfer failed, sleep()
\* does not prime and returns the device's answer to the command before.)
C15_SleepThenWake ==
    (/\ call.op = "sleepThenWake"
     /\ call.pre.deviceConnected
     /\ AllOk(call.xfers))
    => (/\ Len(call.steps) = 2
        /\ call.steps[1] = [status |-> TRUE, rx |-> SleepResponse]
        /\ call.steps[2] = [status |-> TRUE, rx |-> WakeResponse])

\* The same where the transfer before sleep(), if any, had succeeded: this
\* the code satisfies.
C15_SleepThenWakeAfterSuccess ==
    (/\ call.op = "sleepThenWake"
     /\ call.pre.deviceConnected
     /\ call.pre.lastTransfer.none \/ call.pre.lastTransfer.ok
     /\ AllOk(call.xfers))
    => (/\ Len(call.steps) = 2
        /\ call.steps[1] = [status |-> TRUE, rx |-> SleepResponse]
        /\ call.steps[2] = [status |-> TRUE, rx |-> WakeResponse])

-----------------------------------------------------------------------------
(* Communication validation over its full 2048 bytes *)

\* Stale stack contents: zeroes.
ZeroGarbage == [i \in 1 .. TestBufferSize |-> 0]

\* Response streams for validateCommunication (one byte more than the
\* buffer, for a priming transfer): counting runs, clean, with one response
\* replaced near the start, in the middle or at the end, or shifted from the
\* middle on.
CommStreams ==
    LET n == TestBufferSize + 1
    IN  {Counting(16, n)}
        \cup {Corrupted(16, n, d, 1) : d \in {1, 2, n \div 2, n - 1, n}}
        \cup {Shifted(16, n, n \div 2, 1)}

\* Oracles whose only failing transfer is the one fetching the last test
\* byte, with a counting run whose first stored byte is 1: after a priming
\* transfer the run starts one response earlier.
LastByteFails ==
    LET n == TestBufferSize + 1
    IN  {[failAt |-> n, garbage |-> ZeroGarbage, rx |-> Counting(255, n)],
         [failAt |-> n - 1, garbage |-> ZeroGarbage, rx |-> Counting(0, n)]}

CommOracles ==
    [failAt : {0}, garbage : {ZeroGarbage}, rx : CommStreams]
    \cup LastByteFails

ValidateCommunicationFull ==
    \E o \in CommOracles :
        Commit("validateCommunication", 0,
               validateCommunication(Machine, o), <<>>)

NextComm ==
    \/ Connect
    \/ Disconnect
    \/ RetrieveTestByte
    \/ ValidateCommunicationFull

SpecComm == Init /\ [][NextComm]_vars

\* Test byte i (0, 1, ...) a validateCommunication call fetched: the response
\* of its reading transfer i, that is, of transfer i + 1 after a priming one
\* if there was one.
TestByte(c, i) ==
    c.xfers[i + 1 + (IF testCommand # c.pre.lastSentCommand THEN 1 ELSE 0)].rx

\* C12.  validateCommunication, when all its transfers succeed, fetches
\* exactly 2048 test bytes b0..b2047 (2048 reading transfers of the test
\* command, after a priming one if the test command was not sent last) and
\* returns success if and only if b(i) = (b0 + i) mod 256 for every i in
\* 1..2047; otherwise it returns failure with the communication-validation
\* message as the last error.
C12_ValidateCommunicationIffCounting ==
    (/\ call.op = "validateCommunication"
     /\ call.pre.deviceConnected
     /\ AllOk(call.xfers))
    => (/\ Len(call.xfers) = TestBufferSize
               + (IF testCommand # call.pre.lastSentCommand THEN 1 ELSE 0)
        /\ \A j \in 1 .. Len(call.xfers) : call.xfers[j].cmd = testCommand
        /\ call.ret = (\A i \in 1 .. (TestBufferSize - 1) :
                          TestByte(call, i) = (TestByte(call, 0) + i) % ByteMod)
        /\ ~call.ret => lastError = ErrValidateComm)

\* C12's case: a validation of 2048 bytes that succeeded, and one that
\* failed on the last byte alone.
C12_Witness ==
    /\ call.op = "validateCommunication"
    /\ call.pre.deviceConnected
    /\ AllOk(call.xfers)
    /\ Len(call.xfers) >= TestBufferSize
    /\ \/ call.ret
       \/ /\ ~call.ret
          /\ \A i \in 1 .. (TestBufferSize - 2) :
                 TestByte(call, i) = (TestByte(call, 0) + i) % ByteMod

\* C21.  validateCommunication returns failure whenever any of its transfers
\* fails (for instance when the first test byte is 1 and only the transfer of
\* the last test byte fails).
C21_FailedTransferFailsValidation ==
    (/\ call.op = "validateCommunication"
     /\ call.pre.deviceConnected
     /\ SomeFailed(call.xfers))
    => ~call.ret

\* C21's case: a validation whose first test byte was 1 and whose only
\* failed transfer was the last one.
C21_Witness ==
    /\ call.op = "validateCommunication"
    /\ call.pre.deviceConnected
    /\ Len(call.xfers) >= TestBufferSize
    /\ TestByte(call, 0) = 1
    /\ ~call.xfers[Len(call.xfers)].ok
    /\ \A j \in 1 .. (Len(call.xfers) - 1) : call.xfers[j].ok

-----------------------------------------------------------------------------
(* Calibration sweeps that pass some steps *)

\* Oracles of autodetectMaxFrequency: the device answers the first pass
\* steps with a clean counting run and fails the next one, after an odd
\* number of steps by a failing transfer and after an even one by a response
\* that breaks the run.
SweepOracles ==
    {[pass |-> p,
      good |-> [failAt |-> 0, garbage |-> ZeroGarbage,
                rx |-> Counting(16, TestBufferSize + 1)],
      bad |-> IF p % 2 = 1
              THEN [failAt |-> 1, garbage |-> ZeroGarbage,
                    rx |-> Counting(16, TestBufferSize + 1)]
              ELSE [failAt |-> 0, garbage |-> ZeroGarbage,
                    rx |-> Corrupted(16, TestBufferSize + 1, 3, 1)]] :
        p \in 1 .. MaxPass}

AutodetectSweep ==
    \E o \in SweepOracles :
        LET r == autodetectMaxFrequency(Machine, o)
        IN  Commit("autodetectMaxFrequency", 0, r, r.steps)

NextSweep ==
    \/ Connect
    \/ SetMaxClockFrequency
    \/ AutodetectSweep

SpecSweep == Init /\ [][NextSweep]_vars

\* C13.  For every k >= 1: if validateCommunication passes at calibration
\* steps 1..k (frequencies 250000*1 .. 250000*k Hz) and fails at step k+1,
\* autodetectMaxFrequency returns success and the clock frequency of the
\* session afterwards is 250000*k Hz, the frequency of the last passing
\* step; step k+1 is the last one, and every step ran its transfers at its
\* own frequency, so no frequency above that of step k+1 is attempted.
C13_SweepKeepsLastPassing ==
    (call.op = "autodetectMaxFrequency" /\ call.pre.deviceConnected)
    => \A k \in 1 .. (Len(call.steps) - 1) :
           (/\ \A s \in 1 .. k : call.steps[s].status
            /\ ~call.steps[k + 1].status)
           => (/\ call.ret
               /\ clockHz = minClockHz * k
               /\ Len(call.steps) = k + 1
               /\ \A s \in 1 .. (k + 1) :
                      /\ call.steps[s].freqHz = minClockHz * s
                      /\ call.steps[s].speeds = {minClockHz * s})

\* C13's case: a calibration that passed two steps and failed the third, on
\* a session whose clock was none of their frequencies before.
C13_Witness ==
    /\ call.op = "autodetectMaxFrequency"
    /\ call.pre.deviceConnected
    /\ call.pre.clockHz = 4 * minClockHz
    /\ Len(call.steps) = 3
    /\ call.steps[1].status /\ call.steps[2].status /\ ~call.steps[3].status
    /\ call.steps[2].transfers >= TestBufferSize
    /\ call.ret
    /\ clockHz = 2 * minClockHz

-----------------------------------------------------------------------------
(* Calibration sweeps up to the ceiling *)

\* The number of iterations of
\*   for (freqHz = minClockHz; freqHz < maxClockHz; freqHz += minClockHz)
\* when no iteration breaks out of it.
SweepSteps == (maxClockHz - 1) \div minClockHz

\* The device answers every calibration step with a clean counting run.
CeilingOracle ==
    [pass |-> SweepSteps,
     good |-> [failAt |-> 0, garbage |-> ZeroGarbage,
               rx |-> Counting(16, TestBufferSize + 1)],
     bad |-> [failAt |-> 1, garbage |-> ZeroGarbage,
              rx |-> Counting(16, TestBufferSize + 1)]]

\* A calibration that is the first operation of its connection, against a
\* device on which every step passes.
CommitSweep(r) == Commit("autodetectMaxFrequency", 0, r, r.steps)

AutodetectCeiling ==
    /\ call.op = "connect"
    /\ call.ret
    /\ CommitSweep(autodetectMaxFrequency(Machine, CeilingOracle))

NextCeiling ==
    \/ Connect
    \/ Disconnect
    \/ ExecuteCommand
    \/ AutodetectMaxFrequency
    \/ AutodetectCeiling

SpecCeiling == Init /\ [][NextCeiling]_vars


\* C22.  The calibration sweep is a monotone linear search that always
\* terminates: step s sets the clock to 250000 * s Hz (strictly increasing),
\* runs validateCommunication exactly once (its test transfers, at most one
\* priming transfer before the 2048 reading ones, all at that frequency),
\* no step follows a failing step, and there are at most SweepSteps steps.
C22_SweepIsLinearAndEnds ==
    (call.op = "autodetectMaxFrequency" /\ call.pre.deviceConnected)
    => (/\ Len(call.steps) >= 1
        /\ Len(call.steps) <= SweepSteps
        /\ \A s \in 1 .. Len(call.steps) :
               /\ call.steps[s].freqHz = minClockHz * s
               /\ s > 1 => call.steps[s].freqHz > call.steps[s - 1].freqHz
               /\ call.steps[s].transfers >= 1
               /\ call.steps[s].transfers <= TestBufferSize + 1
               /\ call.steps[s].speeds = {minClockHz * s}
               /\ s < Len(call.steps) => call.steps[s].status
        /\ call.ret = call.steps[1].status)

\* C22's case: a sweep that ran every step, and one that stopped at its
\* first step.
C22_Witness ==
    /\ call.op = "autodetectMaxFrequency"
    /\ call.pre.deviceConnected
    /\ Len(call.steps) = SweepSteps
    /\ \A s \in 1 .. SweepSteps : call.steps[s].transfers >= TestBufferSize
    /\ call.ret

C22_WitnessStopped ==
    /\ call.op = "autodetectMaxFrequency"
    /\ call.pre.deviceConnected
    /\ Len(call.steps) = 1
    /\ ~call.steps[1].status
    /\ ~call.ret

\* C23 (as claimed; the code violates it).  When every calibration step
\* passes, autodetectMaxFrequency returns success with the clock frequency
\* equal to the ceiling, 60000000 Hz; every attempted frequency is a
\* multiple of 250000 Hz between 250000 and 60000000 Hz.
C23_AllPassReachesCeiling ==
    (/\ call.op = "autodetectMaxFrequency"
     /\ call.pre.deviceConnected
     /\ \A s \in 1 .. Len(call.steps) : call.steps[s].status)
    => (/\ call.ret
        /\ clockHz = 60000000
        /\ \A s \in 1 .. Len(call.steps) :
               /\ call.steps[s].freqHz % 250000 = 0
               /\ call.steps[s].freqHz >= 250000
               /\ call.steps[s].freqHz <= 60000000)

-----------------------------------------------------------------------------
(* Single transfers and what the driver returns for them *)

\* Oracles of a command's transfers: none fails, or the first or the second
\* does, the driver returning an error (-1) or no byte transferred (0).
CodeOracles == [failAt : 0 .. 2, code : {-1, 0}, rx : {Counting(253, 2)}]

\* Oracles of a calibration: the first step fails at its first transfer
\* with an error, or passes, the second then failing at its first transfer
\* with no byte transferred.
CodeSweepOracles ==
    {[pass |-> p,
      good |-> [failAt |-> 0, garbage |-> ZeroGarbage,
                rx |-> Counting(16, TestBufferSize + 1)],
      bad |-> [failAt |-> 1, code |-> p - 1, garbage |-> ZeroGarbage,
               rx |-> Counting(16, TestBufferSize + 1)]] :
        p \in 0 .. 1}

ExecuteCommandCodes ==
    \E cmd \in {testCommand, randomByteCommand}, o \in CodeOracles :
        Commit("executeCommand", cmd, executeCommand(Machine, cmd, 1, o), <<>>)

AutodetectCodes ==
    \E o \in CodeSweepOracles :
        LET r == autodetectMaxFrequency(Machine, o)
        IN  Commit("autodetectMaxFrequency", 0, r, r.steps)

NextTransfer ==
    \/ Connect
    \/ SetMaxClockFrequency
    \/ ExecuteCommandCodes
    \/ AutodetectCodes

SpecTransfer == Init /\ [][NextTransfer]_vars

\* C26.  A single transfer exchanges exactly one byte with 8 bits per word
\* at the clock frequency the session has at the moment of the call (every
\* transfer of a calibration step at that step's frequency), and it reports
\* success if and only if the driver reports at least one byte transferred:
\* the call goes on after a transfer exactly when the driver returned 1 or
\* more for it.
C26_TransferShape ==
    /\ \A j \in 1 .. Len(call.xfers) :
           /\ call.xfers[j].len = 1
           /\ call.xfers[j].bits_per_word = 8
           /\ call.xfers[j].ok = (call.xfers[j].retCode >= 1)
           /\ call.op # "autodetectMaxFrequency"
                 => call.xfers[j].speed_hz = call.pre.clockHz
           /\ j < Len(call.xfers) => call.xfers[j].retCode >= 1
    /\ (call.op \in CommandOps /\ call.pre.deviceConnected)
           => call.ret = (/\ call.xfers # << >>
                          /\ call.xfers[Len(call.xfers)].retCode >= 1)
    /\ call.op = "autodetectMaxFrequency" =>
           \A s \in 1 .. Len(call.steps) :
               /\ call.steps[s].transfers >= 1
               /\ call.steps[s].lens = {1}
               /\ call.steps[s].words = {8}
               /\ call.steps[s].speeds = {call.steps[s].freqHz}
               /\ call.steps[s].freqHz = s * minClockHz

\* C26's case: a transfer at a frequency the caller set for which the
\* driver returned 0, and a calibration whose first step ran its 2048 test
\* transfers at 250000 Hz on a session set to another frequency before.
C26_Witness ==
    /\ call.op = "executeCommand"
    /\ call.pre.clockHz = 4 * minClockHz
    /\ Len(call.xfers) = 2
    /\ call.xfers[2].retCode = 0
    /\ ~call.xfers[2].ok
    /\ call.xfers[2].speed_hz = 4 * minClockHz
    /\ ~call.ret

C26_WitnessCalibration ==
    /\ call.op = "autodetectMaxFrequency"
    /\ call.pre.clockHz = 4 * minClockHz
    /\ Len(call.steps) = 2
    /\ call.steps[1].transfers >= TestBufferSize
    /\ call.steps[1].speeds = {minClockHz}
    /\ call.steps[2].speeds = {2 * minClockHz}
    /\ call.xfers[1].retCode = 0

-----------------------------------------------------------------------------
(* Runs of the download tool *)

\* Byte counts of -nb: up to MaxChunks complete chunks, with no remainder,
\* the shortest or the longest one.
NumberArgs ==
    {c * MCR_BUFF_FILE_SIZE_BYTES + r :
        c \in 0 .. MaxChunks, r \in {0, 1, MCR_BUFF_FILE_SIZE_BYTES - 1}}

\* Texts of a -cf option: 1000 KHz, the documented maximum, one above it,
\* the least value whose product with 1000 passes 2^32, and a negative one.
ClockTexts ==
    {<<"1", "0", "0", "0">>,
     <<"6", "0", "0", "0", "0">>,
     <<"6", "0", "0", "0", "1">>,
     <<"4", "2", "9", "4", "9", "6", "8">>,
     <<"-", "4", "2", "9", "4", "9", "6", "7">>}

\* Lengths of the value of a -dp option: the longest that fits devicePath
\* with its terminator, and the one after.
DevicePathLengths == {DevicePathSize - 1, DevicePathSize}

\* Lengths of the path given to sample: the default path's, the longest
\* with which the message of a failed open fits lastError, and the one
\* after.
SamplePathLengths ==
    {Len(DEFAULT_SPI_DEV_PATH),
     LastErrorSize - LastErrorBytes(ErrOpen, 0),
     LastErrorSize - LastErrorBytes(ErrOpen, 0) + 1}

\* Command lines of mcrng.
ArgLines ==
    [kind : {"none", "novalue", "toomany"}, nb : {Unlimited},
     fn : {"none"}, cf : {<<>>}, dp : {<<>>}]
    \cup [kind : {"run"}, nb : NumberArgs \cup {Unlimited},
          fn : {"none", "file", "STDOUT"},
          cf : {<<>>} \cup {<<text>> : text \in ClockTexts}, dp : {<<>>}]
    \cup [kind : {"run"}, nb : {0}, fn : {"file"}, cf : {<<>>},
          dp : {<<length>> : length \in DevicePathLengths}]

\* The transfer of a block retrieval that fails: none, the first, the
\* second, the one before the last or the last of a primed retrieval.
BlockFailures(len) == {0, 1, 2, len, len + 1}

\* The session and the process after a step of the tool that left them as
\* r.m and r.t.
ToolCommit(r) ==
    /\ deviceConnected' = r.m.deviceConnected
    /\ fd' = r.m.fd
    /\ clockHz' = r.m.clockHz
    /\ lastSentCommand' = r.m.lastSentCommand
    /\ lastError' = r.m.lastError
    /\ openFds' = r.m.openFds
    /\ badCloses' = r.m.badCloses
    /\ devicePending' = PendingAfter(r.m.xfers, devicePending)
    /\ lastTransfer' = IF r.m.deviceConnected
                       THEN LastTransferAfter(r.m.xfers, TRUE)
                       ELSE NoTransfer
    /\ buf' = buf
    /\ call' = [op |-> IF r.t.pc = "exited" THEN "~MicroRngSPI" ELSE "mcrng",
                arg |-> 0, ret |-> TRUE, xfers |-> <<>>, steps |-> <<>>,
                pre |-> Pre]
    /\ tool' = r.t

\* mcrng is started.
StartDownload ==
    /\ tool.pc = "idle"
    /\ call.op = "MicroRngSPI"
    /\ \E a \in ArgLines, failStep \in 0 .. Len(ConnectSteps),
          o \in DeviceOracles, opens \in BOOLEAN :
           \E killed \in OverflowOutcomes(DevicePathOverflows(a.dp)) :
               ToolCommit(IF killed
                          THEN ToolKilled(Machine, a)
                          ELSE StartTool(Machine, a, failStep, o, opens))

\* One block is fetched and written.
DownloadBlock ==
    /\ \/ tool.pc = "continuous" /\ Len(tool.written) <= MaxChunks
       \/ tool.pc = "chunks" /\ BlocksLeft(tool)
    /\ \E failAt \in BlockFailures(NextBlockLength(tool)) :
           ToolCommit(ToolBlock(Machine, tool, failAt))

\* The bounded download is through.
FinishDownload ==
    /\ tool.pc = "chunks"
    /\ ~BlocksLeft(tool)
    /\ ToolCommit(FinishTool(Machine, tool))

NextDownload ==
    \/ StartDownload
    \/ DownloadBlock
    \/ FinishDownload

SpecDownload == Init /\ [][NextDownload]_vars

\* retrieveRandomBlock tells the runs of retrieveRandomBytes: on every call
\* of retrieveRandomBytes of the session (under Spec, with the amounts a
\* caller of the model requests) it yields the value returned, the number
\* of bytes delivered, the last-sent command and the message of the call.
FirstFailed(xfers) ==
    IF SomeFailed(xfers)
    THEN CHOOSE j \in 1 .. Len(xfers) :
             ~xfers[j].ok /\ \A k \in 1 .. (j - 1) : xfers[k].ok
    ELSE 0

BlockRunAgrees ==
    call.op = "retrieveRandomBytes" =>
        LET before == [Machine EXCEPT
                          !.deviceConnected = call.pre.deviceConnected,
                          !.lastSentCommand = call.pre.lastSentCommand,
                          !.lastError = ""]
            r == retrieveRandomBlock(before, call.arg, FirstFailed(call.xfers))
        IN  /\ r.ret = call.ret
            /\ r.failed = SomeFailed(call.xfers)
            /\ call.pre.deviceConnected =>
                   /\ r.m.lastSentCommand = lastSentCommand
                   /\ call.arg > 0 => r.received = BytesDone(call)
                   /\ r.m.lastError # "" => r.m.lastError = lastError
                   /\ PendingAfter(r.m.xfers, NoCommand)
                          = PendingAfter(call.xfers, NoCommand)
                   /\ call.xfers # << >> =>
                          LastTransferAfter(r.m.xfers, TRUE) = lastTransfer

\* Bytes handed to fwrite in the blocks w[1..k].
RECURSIVE BytesWritten(_, _)
BytesWritten(w, k) == IF k = 0 THEN 0 ELSE BytesWritten(w, k - 1) + w[k].len

C28_WitnessEmpty ==
    /\ tool.pc = "exited"
    /\ tool.status = 0
    /\ tool.numGenBytes = 0
    /\ tool.written = << >>
    /\ ~tool.fileOpen

\* C29 (as claimed; the code violates it).  When a transfer fails during a
\* download, bounded or continuous, handleDownloadRequest stops and returns
\* -1 without writing the block that holds the failed byte: a retrieval with
\* a failed transfer ends the process with status -1, and every block
\* written holds only bytes that a successful transfer delivered.
C29_FailedTransferStopsDownload ==
    /\ tool.failures > 0 => (tool.pc = "exited" /\ tool.status = -1)
    /\ \A i \in 1 .. Len(tool.written) :
           tool.written[i].received = tool.written[i].len

\* C30 (as claimed; the code violates it).  main returns 0 exactly when
\* processArguments returned 0, and a nonzero status when it returned -1.
C30_ExitStatusReflectsOutcome ==
    tool.pc = "exited"
    => (/\ (tool.exit = 0) = (tool.status = 0)
        /\ tool.status = -1 => tool.exit # 0)

\* The download loops run: connect, setMaxClockFrequency and validateDevice
\* are through, and the session holds the frequency it was handed.
Downloading == tool.pc \in {"continuous", "chunks"}

\* The documented maximum of -cf, in KHz.
MaxClockKHz == maxClockHz \div 1000

\* C31 (as claimed; the code violates it).  For every value of the -cf
\* option the frequency handed to setMaxClockFrequency is the value times
\* 1000 Hz, without wrap-around, and is at most 60000000 Hz: the value is
\* within 0 .. 60000 and the session's clock is its thousandfold.
C31_ClockArgumentScaled ==
    (Downloading /\ tool.cf # <<>>)
    => LET KHz == atoi(tool.cf[Len(tool.cf)])
       IN  /\ clockHz <= maxClockHz
           /\ KHz \in 0 .. MaxClockKHz
           /\ clockHz = KHz * 1000

-----------------------------------------------------------------------------
(* Runs of the two programs that retrieve random bytes *)

\* sample is started, with a device path or without one.
RunSample ==
    /\ tool.pc = "idle"
    /\ call.op = "MicroRngSPI"
    /\ \E args \in {<<>>} \cup {<<length>> : length \in SamplePathLengths},
          failStep \in 0 .. Len(ConnectSteps), o \in DeviceOracles :
           \E killed \in OverflowOutcomes(SampleOverflows(args, failStep)) :
               ToolCommit(IF killed
                          THEN SampleKilled(Machine, args, failStep)
                          ELSE StartSample(Machine, args, failStep, o))

\* sample issues a retrieval.
SampleRetrieval ==
    /\ tool.pc \in {"bytes", "numbers"}
    /\ \E failAt \in BlockFailures(SampleLength(tool)) :
           ToolCommit(SampleBlock(Machine, tool, failAt))

NextPrograms ==
    \/ StartDownload
    \/ DownloadBlock
    \/ FinishDownload
    \/ RunSample
    \/ SampleRetrieval

SpecPrograms == Init /\ [][NextPrograms]_vars

\* The calls the program made on its session were these methods, in this
\* order, and each returned true.
CallsWere(ops) ==
    /\ Len(tool.calls) = Len(ops)
    /\ \A i \in 1 .. Len(ops) : tool.calls[i].op = ops[i] /\ tool.calls[i].ret

C32_WitnessSample ==
    /\ tool.pc = "exited"
    /\ tool.status = 0
    /\ tool.retrievals = 2
    /\ CallsWere(<<"connect", "validateDevice">>)

\* C35 (as claimed; the code violates it).  For every device path given
\* to connect, and every -dp value given to mcrng, the text written to the
\* 512-byte lastError, terminator included, takes at most 512 bytes, and
\* the text copied into mcrng's 256-byte devicePath at most 256.
C35_TextsFitTheirBuffers ==
    /\ LastErrorBytes(lastError, tool.path) <= LastErrorSize
    /\ \A i \in 1 .. Len(tool.copies) : tool.copies[i] <= DevicePathSize

-----------------------------------------------------------------------------
(* Claims on connect and on the last error *)

\* C33.  connect on a session that is already Connected returns false and
\* changes nothing: no handle is opened, the handle of the session stays
\* open, and the connection state, the clock frequency, the last-sent
\* command (and the last error) are as they were.
C33_ConnectWhenConnectedChangesNothing ==
    [][(call'.op = "connect" /\ deviceConnected)
       => /\ ~call'.ret
          /\ call'.xfers = <<>>
          /\ openFds' = openFds
          /\ fd' = fd
          /\ fd' \in openFds'
          /\ badCloses' = badCloses
          /\ deviceConnected'
          /\ clockHz' = clockHz
          /\ lastSentCommand' = lastSentCommand
          /\ lastError' = lastError]_vars

\* C33's case: a connect that the kernel would have let through was refused
\* on a Connected session whose frequency and last-sent command were not the
\* initial ones.
C33_Witness ==
    /\ call.op = "connect"
    /\ call.arg = 0
    /\ call.pre.deviceConnected
    /\ ~call.ret
    /\ deviceConnected
    /\ clockHz # minClockHz
    /\ lastSentCommand # NoCommand

\* The session was disconnected by the step: a disconnect, or the
\* destructor, of a Connected session.
DisconnectedByStep ==
    /\ call'.op \in {"disconnect", "~MicroRngSPI"}
    /\ deviceConnected

\* The step was a connect attempt on a Disconnected session.
ConnectAttempted == call'.op = "connect" /\ ~deviceConnected

\* A step of the call c failed and wrote text: a transfer failed, the device
\* or the communication did not validate, or the amount asked was not
\* positive.
FailingStepWrote(c, text) ==
    \/ text = ErrExchange /\ SomeFailed(c.xfers)
    \/ text = ErrDeviceNotFound /\ c.op = "validateDevice" /\ ~c.ret
    \/ /\ text = ErrValidateComm
       /\ \/ c.op = "validateCommunication" /\ ~c.ret
          \/ /\ c.op = "autodetectMaxFrequency"
             /\ \E i \in 1 .. Len(c.steps) : ~c.steps[i].status
    \/ text = ErrAmountRandom /\ c.op = "retrieveRandomBytes" /\ ~c.ret
    \/ text = ErrAmountTest /\ c.op = "retrieveTestBytes" /\ ~c.ret
    \/ text = ErrAmountRaw /\ c.op = "retrieveRawRandomBytes" /\ ~c.ret

\* The last error is "Not Connected" on a fresh session and after every
\* successful disconnect, a connect attempt on a Disconnected session
\* clears it (and, failing, writes the text of its failing step), and
\* otherwise it changes only when a failing step writes it.
LastErrorChangePoints ==
    /\ call.op = "MicroRngSPI" => lastError = ErrNotConnected
    /\ DisconnectedByStep => lastError' = ErrNotConnected
    /\ ConnectAttempted =>
           /\ call'.ret => lastError' = ErrNone
           /\ ~call'.ret => \E k \in 1 .. Len(ConnectSteps) :
                                lastError' = ConnectSteps[k]
    /\ lastError' # lastError =>
           \/ DisconnectedByStep
           \/ ConnectAttempted
           \/ FailingStepWrote(call', lastError')

\* C34 (as claimed; the code violates it).  The last error changes only at
\* these points: it is "Not Connected" on a fresh session and after every
\* successful disconnect, it is cleared at the start of a connect attempt
\* on a Disconnected session, and otherwise only a failing step writes it;
\* a protocol operation that returns success leaves the message of an
\* earlier failure in place.
C34_LastErrorChangesOnlyOnFailure ==
    [][/\ LastErrorChangePoints
       /\ (call'.op \in ProtocolOps /\ call'.ret) => lastError' = lastError]_vars

=============================================================================
